---- MODULE Spec2Model ----
(***************************************************************************)
(* Model of the repository security scanning pipeline of                   *)
(* code/scanner/scanner.py (class RepoSecurityScanner): the risk           *)
(* aggregator (calculate_repo_risk), the per-repository procedure          *)
(* (scan_repo) and the batch driver (scan_all); and of the downloader      *)
(* (class RepoDownloader): download_repo and download_all.                 *)
(*                                                                         *)
(* Specifications:                                                         *)
(*   SpecClassify  the threshold ladder of calculate_repo_risk applied to  *)
(*                 one score under an arbitrary threshold set;             *)
(*   SpecAgg       calculate_repo_risk applied to a list of skill reports; *)
(*   Spec          one scanner process running scan_all over the archive   *)
(*                 set, run after run;                                     *)
(*   SpecConc      two scanner processes running scan_all over the same    *)
(*                 workspace at the same time;                             *)
(*   SpecExtract   extract_repo called again and again for one archive,    *)
(*                 the staging directory and the destination as trees;     *)
(*   SpecFind      find_skill_dirs applied to a repository tree;           *)
(*   SpecSlice     one scanner process calling scan_all with every         *)
(*                 start_from and limit;                                   *)
(*   SpecAcquire   download_repo called again and again, one call at a     *)
(*                 time;                                                   *)
(*   SpecAcquireAll download_all over a task list, duplicates included.    *)
(* SpecLive is Spec with the threads of a call scheduled.  Two further     *)
(* programs of the repository are modelled beside the pipeline:            *)
(*   SpecKeys      callers of APIKeyPool (code/utils/api_key_pool.py),     *)
(*                 each with a pool object of its own over the same index  *)
(*                 file and lock file;                                     *)
(*   SpecAudit     analyze_skill of run_openclaw_scan.py called for one    *)
(*                 skill, run after run, over the same results directory.  *)
(***************************************************************************)
EXTENDS Integers, Sequences, FiniteSets, TLC

(***************************************************************************)
(* Bounds of the model.                                                    *)
(***************************************************************************)
\* threshold values tried are 2, 4, ..., 2*NumThresholdValues
NumThresholdValues == 4
\* analyzer scores tried in lists are 1, 3, ..., 2*NumScoreSamples - 1
NumScoreSamples == 5
\* longest list of skill reports handed to calculate_repo_risk
MaxReports == 3
\* archives in zip_dir, named 1.zip, 2.zip, ...
NumRepos == 3
\* most skill directories in one repository
MaxBundles == 2
\* calls of scan_all one scanner process is followed through
MaxRuns == 2
\* batch_size of scan_all (100 in the code), scaled to the archive set
BatchSize == 2
\* scanner.max_workers (5 by default), scaled to the batch
MaxWorkers == 2
\* calls of extract_repo for the one archive of SpecExtract
MaxCalls == 2

\* longest task list given to download_all
MaxTasks == 3

\* download.concurrent_downloads (15 by default), scaled down
MaxDownloads == 2

\* direct calls of download_repo in SpecAcquire
MaxAcquires == 2

\* distinct repo_ids among the tasks of the downloader
NumTaskIds == 2

\* threads or processes that use the key pool
NumCallers == 2

\* most keys in the pool file
MaxKeys == 3

\* keys handed out that SpecKeys follows
MaxGrants == 4

\* --retries of run_openclaw_scan.py (3 by default), scaled down
MaxRetries == 2

\* runs of analyze_skill for the one skill of SpecAudit
MaxAudits == 2

(***************************************************************************)
(* Program constants.                                                      *)
(***************************************************************************)
\* config.get('scanner.thresholds.*', default)
DefaultCritical == 8
DefaultHigh == 6
DefaultMedium == 4
DefaultLow == 2

\* RISK_PRIORITY, in the insertion order of the dict literal
RiskOrder == <<"CRITICAL", "HIGH", "MEDIUM", "LOW", "SAFE", "UNKNOWN">>

RiskLevels == {RiskOrder[i] : i \in 1..Len(RiskOrder)}

RISK_PRIORITY ==
  [risk \in RiskLevels |->
     CASE risk = "CRITICAL" -> 5
       [] risk = "HIGH"     -> 4
       [] risk = "MEDIUM"   -> 3
       [] risk = "LOW"      -> 2
       [] risk = "SAFE"     -> 1
       [] OTHER             -> 0]

ThresholdKeys == {"critical", "high", "medium", "low"}

\* self.thresholds when the configuration sets none
DefaultThresholds ==
  [critical |-> DefaultCritical, high |-> DefaultHigh,
   medium |-> DefaultMedium, low |-> DefaultLow]

VARIABLES
  thresholds,   \* self.thresholds
  in_score,     \* SpecClassify: the risk_score classified
  cls_out,      \* SpecClassify: the level the ladder gave, or "none"
  in_reports,   \* SpecAgg: the skill_reports argument
  agg_out,      \* SpecAgg: what calculate_repo_risk returned, or "none"
  archive,      \* zip_dir: per repo_id "absent", "corrupt" or its number of skill dirs
  repo_dir,     \* repo_dir/{repo_id} exists and is non-empty
  risk_files,   \* risk_dirs[p]/{repo_id}_report.json: "absent", "partial" or its risk_level
  run_pc,       \* per scanner process: "idle", "running" (inside scan_all), "returned"
  zip_files,    \* per process: the sliced zip_files of scan_all
  batch_i,      \* per process: the loop variable i of scan_all
  scan_stats,   \* per process: self.scan_stats
  task,         \* per process and repo_id: the future of scan_repo(zip)
  runs_done,    \* per process: calls of scan_all that returned
  run_start,    \* per process: scan_stats when the current call began
  prev_zip_files, \* per process: zip_files of the previous call
  prev_result,  \* per process and repo_id: what scan_repo gave in the previous call
  overlap,      \* per repo_id: two processes were inside scan_repo for it at once
  max_workers,  \* self.max_workers of the scanner
  run_args,     \* per process: the arguments of the current call of scan_all
  zip_path,     \* SpecExtract: the archive {repo_id}.zip
  target_path,  \* SpecExtract: the directory repo_dir/{repo_id}
  temp_dir,     \* SpecExtract: the directory workspace_dir/temp_extract_{repo_id}
  ext_pc,       \* SpecExtract: position inside extract_repo
  ext_i,        \* SpecExtract: the member extractall is at
  ext_ret,      \* SpecExtract: how the last call of extract_repo ended
  ext_calls,    \* SpecExtract: calls of extract_repo made
  repo_path,    \* SpecFind: the tree under the repository root
  find_pc,      \* SpecFind: "ready" before the call, "returned" after it
  found_dirs,   \* SpecFind: the directories find_skill_dirs returned
  zip_dir,      \* downloader: per repo_id, the file zip_dir/{repo_id}.zip
  download,     \* downloader: per submitted task, the frame of download_repo
  repo_mapping, \* downloader: the task list of download_all, after the limit
  pool_pc,      \* downloader: position inside download_all
  tally,        \* downloader: success_count, failed_count, skipped_count
  completed,    \* downloader: the futures as_completed has yielded
  acq_calls,    \* downloader: direct calls of download_repo made
  branch_fallback, \* downloader: self.branch_fallback
  pool_size,    \* key pool: the number of keys load_keys reads
  index_file,   \* key pool: the file that holds the index of the next key
  lock_owner,   \* key pool: the caller that holds flock on the lock file, or 0
  key_caller,   \* key pool: per caller, its position and its local index
  granted,      \* key pool: the pool positions handed out, in lock order
  results_dir,  \* audit: the files under results_dir, as <<category, name>>
  audit_pc,     \* audit: position inside analyze_skill
  attempt,      \* audit: the loop variable of analyze_skill
  retries,      \* audit: the parameter retries
  audit_ret,    \* audit: the status string the current call returned
  prev_audit_ret, \* audit: the status string the call before returned
  analyzer_runs, \* audit: subprocess.run calls of the current call
  audit_calls   \* audit: calls of analyze_skill made

aggVars == <<thresholds, in_score, cls_out, in_reports, agg_out>>

fsVars == <<archive, repo_dir, risk_files>>

runVars == <<run_pc, zip_files, prev_zip_files, batch_i, scan_stats, task,
             runs_done, run_start, prev_result, overlap>>

callVars == <<max_workers, run_args>>

pipeVars == <<fsVars, runVars, callVars>>

extVars == <<zip_path, target_path, temp_dir, ext_pc, ext_i, ext_ret, ext_calls>>

findVars == <<repo_path, find_pc, found_dirs>>

dlVars == <<zip_dir, download, repo_mapping, pool_pc, tally, completed,
           acq_calls, branch_fallback>>

keyVars == <<pool_size, index_file, lock_owner, key_caller, granted>>

auditVars == <<results_dir, audit_pc, attempt, retries, audit_ret,
               prev_audit_ret, analyzer_runs, audit_calls>>

sideVars == <<keyVars, auditVars>>

unitVars == <<extVars, findVars, dlVars, sideVars>>

vars == <<aggVars, pipeVars, unitVars>>

(***************************************************************************)
(* calculate_repo_risk                                                     *)
(***************************************************************************)
\* dict.get(key, default)
DictGet(d, key, default) == IF key \in DOMAIN d THEN d[key] ELSE default

\* the ladder with its first rung strict
ClassifyStrictTop(risk_score, th) ==
  IF risk_score > th.critical THEN "CRITICAL"
  ELSE IF risk_score >= th.high THEN "HIGH"
  ELSE IF risk_score >= th.medium THEN "MEDIUM"
  ELSE IF risk_score >= th.low THEN "LOW"
  ELSE "SAFE"

\* the ladder with the low rung tested before the medium rung
ClassifyLowFirst(risk_score, th) ==
  IF risk_score >= th.critical THEN "CRITICAL"
  ELSE IF risk_score >= th.high THEN "HIGH"
  ELSE IF risk_score >= th.low THEN "LOW"
  ELSE IF risk_score >= th.medium THEN "MEDIUM"
  ELSE "SAFE"

\* the if/elif ladder over self.thresholds
Classify(risk_score, th) ==
  IF risk_score >= th.critical THEN "CRITICAL"
  ELSE IF risk_score >= th.high THEN "HIGH"
  ELSE IF risk_score >= th.medium THEN "MEDIUM"
  ELSE IF risk_score >= th.low THEN "LOW"
  ELSE "SAFE"

\* risk_counts = {risk: 0 for risk in self.RISK_PRIORITY.keys()}
ZeroCounts == [risk \in RiskLevels |-> 0]

\* the counting loop that files every report under SAFE
RECURSIVE CountRisksAllSafe(_, _, _)
CountRisksAllSafe(skill_reports, th, risk_counts) ==
  IF skill_reports = <<>> THEN risk_counts
  ELSE CountRisksAllSafe(Tail(skill_reports), th,
         [risk_counts EXCEPT !["SAFE"] = @ + 1])

\* the loop over skill_reports: risk_counts[risk] += 1
RECURSIVE CountRisks(_, _, _)
CountRisks(skill_reports, th, risk_counts) ==
  IF skill_reports = <<>> THEN risk_counts
  ELSE LET report == Head(skill_reports)
           risk == Classify(DictGet(report, "risk_score", 0), th)
       IN  CountRisks(Tail(skill_reports), th,
             [risk_counts EXCEPT ![risk] = @ + 1])

\* the loop over skill_reports: total_issues += len(findings)
RECURSIVE TotalIssues(_)
TotalIssues(skill_reports) ==
  IF skill_reports = <<>> THEN 0
  ELSE Len(DictGet(Head(skill_reports), "findings", <<>>))
       + TotalIssues(Tail(skill_reports))

\* the selection loop keeping the last level that occurred
RECURSIVE HighestRiskLastWins(_, _, _, _)
HighestRiskLastWins(risk_counts, i, max_priority, repo_risk) ==
  IF i > Len(RiskOrder) THEN repo_risk
  ELSE LET risk == RiskOrder[i]
           priority == RISK_PRIORITY[risk]
       IN  IF risk_counts[risk] > 0 /\ priority > 0
           THEN HighestRiskLastWins(risk_counts, i + 1, priority, risk)
           ELSE HighestRiskLastWins(risk_counts, i + 1, max_priority, repo_risk)

\* the loop over risk_counts.items(): keep the level of highest priority
RECURSIVE HighestRisk(_, _, _, _)
HighestRisk(risk_counts, i, max_priority, repo_risk) ==
  IF i > Len(RiskOrder) THEN repo_risk
  ELSE LET risk == RiskOrder[i]
           priority == RISK_PRIORITY[risk]
       IN  IF risk_counts[risk] > 0 /\ priority > max_priority
           THEN HighestRisk(risk_counts, i + 1, priority, risk)
           ELSE HighestRisk(risk_counts, i + 1, max_priority, repo_risk)

\* the early return whose summary also carries total_skills
EmptyResultWithTotal ==
  <<"UNKNOWN", [reason |-> "No skills scanned", total_skills |-> 0]>>

\* the early return on an empty list
EmptyResult == <<"UNKNOWN", [reason |-> "No skills scanned"]>>

\* calculate_repo_risk(skill_reports) -> (repo_risk, summary)
calculate_repo_risk(skill_reports, th) ==
  IF skill_reports = <<>> THEN EmptyResult
  ELSE LET risk_counts == CountRisks(skill_reports, th, ZeroCounts)
       IN  << HighestRisk(risk_counts, 1, 0, "UNKNOWN"),
              [risk_counts  |-> risk_counts,
               total_skills |-> Len(skill_reports),
               total_issues |-> TotalIssues(skill_reports)] >>

(***************************************************************************)
(* Inputs of the aggregator specifications.                                *)
(***************************************************************************)
ThresholdValues == {2 * i : i \in 1..NumThresholdValues}

\* every threshold set over the values, ordered by convention or not
ThresholdSets == [ThresholdKeys -> ThresholdValues]

\* scores around every threshold value: below, equal and above
ClassifyScores == 0..(2 * NumThresholdValues + 1)

SampleScores == {2 * i - 1 : i \in 1..NumScoreSamples}

FindingLists == {<<>>, <<"finding", "finding">>}

\* Skill reports as scan_skill returns them to scan_repo, which keeps only
\* the truthy ones: JSON objects with at least one key.  The keys read by
\* calculate_repo_risk may be there or not.
SkillReports ==
  {[risk_score |-> s, findings |-> f] : s \in SampleScores, f \in FindingLists}
  \cup {[risk_score |-> 2 * NumScoreSamples - 1]}
  \cup {[findings |-> <<"finding">>]}

RECURSIVE SeqsUpTo(_, _)
SeqsUpTo(S, n) ==
  IF n = 0 THEN {<<>>}
  ELSE LET shorter == SeqsUpTo(S, n - 1)
       IN  shorter \cup {Append(q, x) : q \in {t \in shorter : Len(t) = n - 1}, x \in S}

\* the default thresholds and a set that breaks the conventional order
AggThresholdSets ==
  {DefaultThresholds,
   [critical |-> DefaultLow, high |-> DefaultMedium,
    medium |-> DefaultHigh, low |-> DefaultCritical]}

(***************************************************************************)
(* The workspace and the scanner processes.                                *)
(***************************************************************************)
\* scanner processes sharing one workspace
Procs == {1, 2}

\* repo_id of the archives {repo_id}.zip
Repos == 1..NumRepos

\* self.risk_dirs, in the insertion order of the dict literal
PartitionOrder == <<"CRITICAL", "HIGH", "MEDIUM", "LOW", "SAFE">>

Partitions == {PartitionOrder[i] : i \in 1..Len(PartitionOrder)}

\* what a zip file can hold: a corrupt or empty archive, or a tree with
\* up to n skill directories
ArchiveKinds(n) ==
  {[kind |-> "corrupt", skill_dirs |-> 0]}
  \cup {[kind |-> "valid", skill_dirs |-> m] : m \in 0..n}

NoArchive == [kind |-> "absent", skill_dirs |-> 0]

\* self.scan_stats as __init__ leaves it
InitStats ==
  [total |-> 0, scanned |-> 0, failed |-> 0, skipped |-> 0,
   by_risk |-> ZeroCounts]

NoResult == [status |-> "none", risk_level |-> "UNKNOWN", skill_count |-> 0]

\* the tuple scan_repo returns
Result(status, risk_level, skill_count) ==
  [status |-> status, risk_level |-> risk_level, skill_count |-> skill_count]

\* scan_repo left by an exception, which future.result() re-raises
Raised == [status |-> "raised", risk_level |-> "UNKNOWN", skill_count |-> 0]

NoTask ==
  [pc |-> "none", idx |-> 0, skill_reports |-> <<>>, tmp |-> 0,
   repo_risk |-> "UNKNOWN", result |-> NoResult]

Queued == [NoTask EXCEPT !.pc = "queued"]

\* a future whose call has ended, by return or by exception
Done(result) == [NoTask EXCEPT !.pc = "done", !.result = result]

\* positions of scan_repo at which a worker thread is busy with it
Active == {"check", "extract", "count", "find", "scan", "save", "dump"}

Min(a, b) == IF a <= b THEN a ELSE b

\* the decimal digits, and the characters of the suffix of an archive name
Digits == <<"0", "1", "2", "3", "4", "5", "6", "7", "8", "9">>

ZipSuffix == <<".", "z", "i", "p">>

IsDigit(c) == \E d \in 1..Len(Digits) : Digits[d] = c

DigitValue(c) == (CHOOSE d \in 1..Len(Digits) : Digits[d] = c) - 1

\* str(n) for n >= 0, as a sequence of characters
RECURSIVE Decimal(_)
Decimal(n) ==
  IF n < 10 THEN <<Digits[n + 1]>>
  ELSE Append(Decimal(n \div 10), Digits[(n % 10) + 1])

\* the repo_id of the r-th archive of the model: 9, 10, 11, ...
RepoId(r) == r + 8

\* the file name {repo_id}.zip of the r-th archive
ZipName(r) == Decimal(RepoId(r)) \o ZipSuffix

\* position of the first digit of the name from i on, 0 if there is none
RECURSIVE FirstDigit(_, _)
FirstDigit(name, i) ==
  IF i > Len(name) THEN 0
  ELSE IF IsDigit(name[i]) THEN i
  ELSE FirstDigit(name, i + 1)

\* int() of the run of digits of the name that starts at i, after acc
RECURSIVE DigitRun(_, _, _)
DigitRun(name, i, acc) ==
  IF i > Len(name) \/ ~IsDigit(name[i]) THEN acc
  ELSE DigitRun(name, i + 1, 10 * acc + DigitValue(name[i]))

\* re.search(r'(\d+)', filename): int(match.group(1)) if match else 0
SearchNumber(name) ==
  IF FirstDigit(name, 1) = 0 THEN 0
  ELSE DigitRun(name, FirstDigit(name, 1), 0)

\* _extract_number of the file name of the r-th archive
extract_number(r) == SearchNumber(ZipName(r))

\* the arguments of scan_all: start_from, and limit if one is given
Args(start_from, has_limit, limit) ==
  [start_from |-> start_from, has_limit |-> has_limit, limit |-> limit]

NoArgs == Args(0, FALSE, 0)

\* list(zip_dir.glob('*.zip')) sorted by _extract_number
RECURSIVE SortedByNumber(_)
SortedByNumber(S) ==
  IF S = {} THEN <<>>
  ELSE LET first == CHOOSE x \in S :
                      \A y \in S : extract_number(x) <= extract_number(y)
       IN  <<first>> \o SortedByNumber(S \ {first})

\* zip_files[start_from:]
SliceFrom(q, start_from) ==
  IF start_from >= Len(q) THEN <<>> ELSE SubSeq(q, start_from + 1, Len(q))

\* zip_files[:limit]
SliceTo(q, limit) == SubSeq(q, 1, Min(limit, Len(q)))

\* zip_files of scan_all after sorting and slicing; "if limit:" takes
\* None and 0 alike for no limit
SelectZips(start_from, has_limit, limit) ==
  LET listed == SortedByNumber({r \in Repos : archive[r].kind # "absent"})
      sliced == SliceFrom(listed, start_from)
  IN  IF has_limit /\ limit # 0 THEN SliceTo(sliced, limit) ELSE sliced

\* the batch that takes in every archive from the i-th on
BatchToEnd(q, i) == {q[j] : j \in (i + 1)..Len(q)}

\* batch = zip_files[i:i + batch_size], as a set of repo_ids
Batch(q, i) == {q[j] : j \in (i + 1)..Min(i + BatchSize, Len(q))}

SetTask(k, r, t) == [task EXCEPT ![k][r] = t]

(***************************************************************************)
(* scan_all: the start of a call.                                          *)
(***************************************************************************)
\* Process k constructs a scanner and calls scan_all(limit, start_from),
\* for the first time or again after an earlier call returned.
StartRun(k, start_from, has_limit, limit) ==
  /\ run_pc[k] \in {"idle", "returned"}
  /\ runs_done[k] < MaxRuns
  /\ LET selected == SelectZips(start_from, has_limit, limit)
         stats == [InitStats EXCEPT !.total = Len(selected)]
     IN  /\ zip_files' = [zip_files EXCEPT ![k] = selected]
         /\ prev_zip_files' = [prev_zip_files EXCEPT ![k] = zip_files[k]]
         /\ scan_stats' = [scan_stats EXCEPT ![k] = stats]
         /\ run_start' = [run_start EXCEPT ![k] = stats]
         /\ batch_i' = [batch_i EXCEPT ![k] = 0]
         /\ prev_result' =
              [prev_result EXCEPT ![k] = [r \in Repos |-> task[k][r].result]]
         /\ task' = [task EXCEPT ![k] =
                       [r \in Repos |->
                          IF r \in Batch(selected, 0) THEN Queued ELSE NoTask]]
         /\ IF selected = <<>>
            THEN /\ run_pc' = [run_pc EXCEPT ![k] = "returned"]
                 /\ runs_done' = [runs_done EXCEPT ![k] = @ + 1]
            ELSE /\ run_pc' = [run_pc EXCEPT ![k] = "running"]
                 /\ UNCHANGED runs_done
  /\ run_args' = [run_args EXCEPT ![k] =
                    Args(start_from, has_limit, limit)]
  /\ UNCHANGED <<aggVars, unitVars, max_workers, fsVars, overlap>>

\* A free worker thread of the executor takes the oldest submitted future
\* and enters scan_repo.
TaskStart(k, r) ==
  /\ run_pc[k] = "running"
  /\ task[k][r].pc = "queued"
  /\ Cardinality({q \in Repos : task[k][q].pc \in Active}) < max_workers
  /\ \A q \in Repos :
       task[k][q].pc = "queued" => extract_number(r) <= extract_number(q)
  /\ task' = SetTask(k, r, [task[k][r] EXCEPT !.pc = "check"])
  /\ overlap' = [overlap EXCEPT ![r] =
                   @ \/ \E k2 \in Procs \ {k} : task[k2][r].pc \in Active]
  /\ UNCHANGED <<aggVars, unitVars, callVars, fsVars, run_pc, zip_files, prev_zip_files, batch_i,
                 scan_stats, runs_done, run_start, prev_result>>

(***************************************************************************)
(* scan_repo                                                               *)
(***************************************************************************)
\* the probe that finds no report
FirstReportNever(r, i) == "none"

\* the probe that looks into the critical partition only
FirstReportCriticalOnly(r, i) ==
  IF risk_files[r]["CRITICAL"] # "absent" THEN "CRITICAL" ELSE "none"

\* the first partition of risk_dirs, from the i-th on, that holds a report
\* file of r; "none" when there is none
RECURSIVE FirstReport(_, _)
FirstReport(r, i) ==
  IF i > Len(PartitionOrder) THEN "none"
  ELSE IF risk_files[r][PartitionOrder[i]] # "absent" THEN PartitionOrder[i]
  ELSE FirstReport(r, i + 1)

\* the level read that takes the partition's name for the level
ExistingRiskByPartition(r, p) == p

\* json.load of the report and its risk_level; a file that does not parse
\* gives UNKNOWN
ExistingRisk(r, p) ==
  IF risk_files[r][p] = "partial" THEN "UNKNOWN" ELSE risk_files[r][p]

\* the already-scanned check at the head of scan_repo
Check(k, r) ==
  /\ task[k][r].pc = "check"
  /\ LET p == FirstReport(r, 1)
     IN  IF p # "none"
         THEN task' = SetTask(k, r, Done(Result("skipped", ExistingRisk(r, p), 0)))
         ELSE task' = SetTask(k, r, [task[k][r] EXCEPT !.pc = "extract"])
  /\ UNCHANGED <<aggVars, unitVars, callVars, fsVars, run_pc, zip_files, prev_zip_files, batch_i,
                 scan_stats, runs_done, run_start, prev_result, overlap>>

\* extract_repo up to the read of scan_stats['scanned'], and the 'failed'
\* return of scan_repo when it gives None
Extract(k, r) ==
  /\ task[k][r].pc = "extract"
  /\ IF repo_dir[r]
     THEN /\ task' = SetTask(k, r, [task[k][r] EXCEPT !.pc = "find"])
          /\ UNCHANGED repo_dir
     ELSE IF archive[r].kind # "valid"
     THEN /\ task' = SetTask(k, r, Done(Result("failed", "UNKNOWN", 0)))
          /\ UNCHANGED repo_dir
     ELSE /\ repo_dir' = [repo_dir EXCEPT ![r] = TRUE]
          /\ task' = SetTask(k, r, [task[k][r] EXCEPT
                        !.pc = "count", !.tmp = scan_stats[k].scanned])
  /\ UNCHANGED <<aggVars, unitVars, callVars, archive, risk_files, run_pc, zip_files,
                 prev_zip_files, batch_i, scan_stats, runs_done, run_start,
                 prev_result, overlap>>

\* the store of self.scan_stats['scanned'] += 1 in the worker thread
Count(k, r) ==
  /\ task[k][r].pc = "count"
  /\ scan_stats' = [scan_stats EXCEPT ![k].scanned = task[k][r].tmp + 1]
  /\ task' = SetTask(k, r, [task[k][r] EXCEPT !.pc = "find", !.tmp = 0])
  /\ UNCHANGED <<aggVars, unitVars, callVars, fsVars, run_pc, zip_files, prev_zip_files, batch_i,
                 runs_done, run_start, prev_result, overlap>>

\* the discovery that takes the repository root for a skill directory
FindSkillDirsWithRoot(r) ==
  IF repo_dir[r] THEN archive[r].skill_dirs + 1 ELSE 0

\* the discovery that finds no skill directory in any tree
FindNoSkillDirs(r) == 0

\* find_skill_dirs over the extracted tree
find_skill_dirs(r) == IF repo_dir[r] THEN archive[r].skill_dirs ELSE 0

\* discovery, and the no-skills return with its rmtree
Find(k, r) ==
  /\ task[k][r].pc = "find"
  /\ IF find_skill_dirs(r) = 0
     THEN /\ repo_dir' = [repo_dir EXCEPT ![r] = FALSE]
          /\ task' = SetTask(k, r, Done(Result("skipped", "UNKNOWN", 0)))
     ELSE /\ task' = SetTask(k, r, [task[k][r] EXCEPT !.pc = "scan"])
          /\ UNCHANGED repo_dir
  /\ UNCHANGED <<aggVars, unitVars, callVars, archive, risk_files, run_pc, zip_files,
                 prev_zip_files, batch_i, scan_stats, runs_done, run_start,
                 prev_result, overlap>>

\* what one call of scan_skill can give: None (non-zero exit, timeout, no
\* output, output that does not parse or is falsy) or the analyzer's
\* report, with a risk_score among scores
AnalyzerOutcomes(scores) ==
  {[ok |-> FALSE, report |-> [risk_score |-> 0, findings |-> <<>>]]}
  \cup {[ok |-> TRUE, report |-> [risk_score |-> s, findings |-> <<>>]] :
          s \in scores}

\* the collection that appends whatever scan_skill gave
CollectedAlways(skill_reports, out) == Append(skill_reports, out.report)

\* "if report: skill_reports.append(report)"
Collected(skill_reports, out) ==
  IF out.ok THEN Append(skill_reports, out.report) ELSE skill_reports

\* one turn of the loop over skill_dirs: scan_skill, and append if truthy
Scan(k, r, out) ==
  /\ task[k][r].pc = "scan"
  /\ LET t == task[k][r]
         reports == Collected(t.skill_reports, out)
         last == t.idx + 1 >= archive[r].skill_dirs
     IN  task' = SetTask(k, r, [t EXCEPT
                    !.skill_reports = reports,
                    !.idx = IF last THEN 0 ELSE t.idx + 1,
                    !.pc = IF last THEN "save" ELSE "scan"])
  /\ UNCHANGED <<aggVars, unitVars, callVars, fsVars, run_pc, zip_files, prev_zip_files, batch_i,
                 scan_stats, runs_done, run_start, prev_result, overlap>>

\* the target that falls back to the safe partition
TargetDirSafeFallback(repo_risk) ==
  IF repo_risk \in Partitions THEN repo_risk ELSE "SAFE"

\* self.risk_dirs.get(repo_risk, self.risk_dirs['LOW'])
TargetDir(repo_risk) ==
  IF repo_risk \in Partitions THEN repo_risk ELSE "LOW"

\* the report _generate_report builds from the reports collected, as far as
\* its level and its counts of skills go
_generate_report(skill_reports, repo_risk) ==
  [risk_level |-> repo_risk,
   total_skills |-> Len(skill_reports),
   scanned_skills |-> Len(skill_reports),
   failed_skills |-> 0]

\* calculate_repo_risk, _generate_report and open(report_path, 'w'), which
\* creates the file, or truncates it, before anything is written
SaveOpen(k, r) ==
  /\ task[k][r].pc = "save"
  /\ LET repo_risk == calculate_repo_risk(task[k][r].skill_reports, thresholds)[1]
     IN  /\ risk_files' = [risk_files EXCEPT ![r][TargetDir(repo_risk)] = "partial"]
         /\ task' = SetTask(k, r, [task[k][r] EXCEPT
                        !.pc = "dump", !.repo_risk = repo_risk])
  /\ UNCHANGED <<aggVars, unitVars, callVars, archive, repo_dir, run_pc, zip_files,
                 prev_zip_files, batch_i, scan_stats, runs_done, run_start,
                 prev_result, overlap>>

\* json.dump and the close of the file, and the 'scanned' return
Dump(k, r) ==
  /\ task[k][r].pc = "dump"
  /\ LET repo_risk == task[k][r].repo_risk
         report == _generate_report(task[k][r].skill_reports, repo_risk)
     IN  /\ risk_files' = [risk_files EXCEPT
                             ![r][TargetDir(repo_risk)] = report.risk_level]
         /\ task' = SetTask(k, r,
                      Done(Result("scanned", repo_risk, archive[r].skill_dirs)))
  /\ UNCHANGED <<aggVars, unitVars, callVars, archive, repo_dir, run_pc, zip_files,
                 prev_zip_files, batch_i, scan_stats, runs_done, run_start,
                 prev_result, overlap>>

\* An exception leaves scan_repo: from the exists/iterdir test of
\* extract_repo, from the tree walk of find_skill_dirs, from aggregation,
\* report build or open, or from json.dump, which leaves the file as far
\* as it was written.  (scan_skill catches its own.)
Raise(k, r) ==
  /\ task[k][r].pc \in {"extract", "find", "save", "dump"}
  /\ task' = SetTask(k, r, Done(Raised))
  /\ UNCHANGED <<aggVars, unitVars, callVars, fsVars, run_pc, zip_files, prev_zip_files, batch_i,
                 scan_stats, runs_done, run_start, prev_result, overlap>>

(***************************************************************************)
(* scan_all: the main thread.                                              *)
(***************************************************************************)
\* the bookkeeping that leaves an exception of future.result() uncounted
StatsAfterIgnoringRaise(stats, result) ==
  IF result.status = "scanned"
  THEN [stats EXCEPT !.by_risk[result.risk_level] = @ + 1]
  ELSE IF result.status = "skipped"
  THEN IF result.risk_level \in RiskLevels
       THEN [stats EXCEPT !.by_risk[result.risk_level] = @ + 1]
       ELSE stats
  ELSE IF result.status = "raised" THEN stats
  ELSE [stats EXCEPT !.failed = @ + 1]

\* the bookkeeping that counts only exceptions as failures
StatsAfterIgnoringFailed(stats, result) ==
  IF result.status = "scanned"
  THEN [stats EXCEPT !.by_risk[result.risk_level] = @ + 1]
  ELSE IF result.status = "skipped"
  THEN IF result.risk_level \in RiskLevels
       THEN [stats EXCEPT !.by_risk[result.risk_level] = @ + 1]
       ELSE stats
  ELSE IF result.status = "failed" THEN stats
  ELSE [stats EXCEPT !.failed = @ + 1]

\* the bookkeeping that leaves a skip with UNKNOWN out of by_risk
StatsAfterSkippingUnknown(stats, result) ==
  IF result.status = "scanned"
  THEN [stats EXCEPT !.by_risk[result.risk_level] = @ + 1]
  ELSE IF result.status = "skipped"
  THEN IF result.risk_level \in RiskLevels \ {"UNKNOWN"}
       THEN [stats EXCEPT !.by_risk[result.risk_level] = @ + 1]
       ELSE stats
  ELSE [stats EXCEPT !.failed = @ + 1]

\* the body of the as_completed loop: the try block and its except clause
StatsAfter(stats, result) ==
  IF result.status = "scanned"
  THEN [stats EXCEPT !.by_risk[result.risk_level] = @ + 1]
  ELSE IF result.status = "skipped"
  THEN IF result.risk_level \in RiskLevels
       THEN [stats EXCEPT !.by_risk[result.risk_level] = @ + 1]
       ELSE stats
  ELSE [stats EXCEPT !.failed = @ + 1]

\* the main thread takes a completed future from as_completed
Collect(k, r) ==
  /\ run_pc[k] = "running"
  /\ task[k][r].pc = "done"
  /\ scan_stats' = [scan_stats EXCEPT ![k] = StatsAfter(@, task[k][r].result)]
  /\ task' = SetTask(k, r, [task[k][r] EXCEPT !.pc = "collected"])
  /\ UNCHANGED <<aggVars, unitVars, callVars, fsVars, run_pc, zip_files, prev_zip_files, batch_i,
                 runs_done, run_start, prev_result, overlap>>

\* a range that ends after its first value
MoreBatchesNever(q, i) == FALSE

\* range(0, len(zip_files), batch_size) has a value after i
MoreBatches(q, i) == i + BatchSize < Len(q)

\* every future of the batch is collected: the executor is left, and the
\* loop goes to the next batch or scan_all returns
NextBatch(k) ==
  /\ run_pc[k] = "running"
  /\ \A r \in Batch(zip_files[k], batch_i[k]) : task[k][r].pc = "collected"
  /\ IF MoreBatches(zip_files[k], batch_i[k])
     THEN /\ batch_i' = [batch_i EXCEPT ![k] = @ + BatchSize]
          /\ task' = [task EXCEPT ![k] =
                        [r \in Repos |->
                           IF r \in Batch(zip_files[k], batch_i[k] + BatchSize)
                           THEN Queued ELSE task[k][r]]]
          /\ UNCHANGED <<run_pc, runs_done>>
     ELSE /\ run_pc' = [run_pc EXCEPT ![k] = "returned"]
          /\ runs_done' = [runs_done EXCEPT ![k] = @ + 1]
          /\ UNCHANGED <<batch_i, task>>
  /\ UNCHANGED <<aggVars, unitVars, callVars, fsVars, zip_files, prev_zip_files, scan_stats,
                 run_start, prev_result, overlap>>

\* a step of process k other than the start of a call, the analyzer giving
\* risk scores among scores
Step(k, scores) ==
  \/ \E r \in Repos : TaskStart(k, r)
  \/ \E r \in Repos : Check(k, r)
  \/ \E r \in Repos : Extract(k, r)
  \/ \E r \in Repos : Count(k, r)
  \/ \E r \in Repos : Find(k, r)
  \/ \E r \in Repos, out \in AnalyzerOutcomes(scores) : Scan(k, r, out)
  \/ \E r \in Repos : SaveOpen(k, r)
  \/ \E r \in Repos : Dump(k, r)
  \/ \E r \in Repos : Raise(k, r)
  \/ \E r \in Repos : Collect(k, r)
  \/ NextBatch(k)

(***************************************************************************)
(* Specifications.                                                         *)
(***************************************************************************)
\* the aggregator variables outside the aggregator specifications
AggIdle ==
  /\ thresholds = DefaultThresholds
  /\ in_score = 0
  /\ cls_out = "none"
  /\ in_reports = <<>>
  /\ agg_out = "none"

\* scanners constructed over a workspace with the given archives, nothing
\* extracted and no report written
InitPipe(archives) ==
  /\ archive \in archives
  /\ repo_dir = [r \in Repos |-> FALSE]
  /\ risk_files = [r \in Repos |-> [p \in Partitions |-> "absent"]]
  /\ run_pc = [k \in Procs |-> "idle"]
  /\ zip_files = [k \in Procs |-> <<>>]
  /\ prev_zip_files = [k \in Procs |-> <<>>]
  /\ batch_i = [k \in Procs |-> 0]
  /\ scan_stats = [k \in Procs |-> InitStats]
  /\ task = [k \in Procs |-> [r \in Repos |-> NoTask]]
  /\ runs_done = [k \in Procs |-> 0]
  /\ run_start = [k \in Procs |-> InitStats]
  /\ prev_result = [k \in Procs |-> [r \in Repos |-> NoResult]]
  /\ overlap = [r \in Repos |-> FALSE]
  /\ run_args = [k \in Procs |-> NoArgs]

(***************************************************************************)
(* Directory trees.                                                        *)
(***************************************************************************)
\* indicators of _is_skill_dir
Indicators == {"SKILL.md", "skill.json", "api.json", "tool.json"}

\* the names that are regular files in the trees of the model; every other
\* name is a directory
FileNames == Indicators \cup {"README.md", "old.txt"}

\* the path and the paths of the directories above it, below the root
Prefixes(path) == {SubSeq(path, 1, n) : n \in 1..Len(path)}

\* a set of paths with the directories they lie in
Closure(paths) == UNION {Prefixes(p) : p \in paths}

\* a path of the filesystem: nothing there, a directory with the paths
\* beneath it (relative to it), or a regular file
Absent == [kind |-> "absent", entries |-> {}]

Dir(entries) == [kind |-> "dir", entries |-> entries]

File == [kind |-> "file", entries |-> {}]

\* names of a directory's own entries (iterdir)
iterdir(entries) == {p[1] : p \in entries}

\* what lies at entries/name: a file, or a directory with its paths
At(entries, name) ==
  IF name \in FileNames THEN File
  ELSE Dir({Tail(p) : p \in {q \in entries : Len(q) > 1 /\ q[1] = name}})

\* the paths a tree occupies when it sits under the given name
Nest(name, obj) ==
  {<<name>>} \cup {<<name>> \o p : p \in obj.entries}

(***************************************************************************)
(* find_skill_dirs                                                         *)
(***************************************************************************)
\* repo_path.rglob('*'): every path beneath repo_path, repo_path itself
\* not among them
rglob(entries) == entries

\* item.is_dir()
is_dir(item) == item[Len(item)] \notin FileNames

\* _is_skill_dir: any((path / f).exists() for f in indicators)
is_skill_dir(entries, path) ==
  \E f \in Indicators : Append(path, f) \in entries

\* find_skill_dirs over the tree beneath repo_path, as the set of the
\* directories it lists
find_skill_dirs_of(entries) ==
  {item \in rglob(entries) : is_dir(item) /\ is_skill_dir(entries, item)}

\* directories and files the trees handed to find_skill_dirs are built of
TreeDirs == {<<>>, <<"a">>, <<"a", "b">>}

TreeFiles == {"SKILL.md", "tool.json", "README.md"}

TreePaths ==
  (TreeDirs \ {<<>>}) \cup {Append(d, f) : d \in TreeDirs, f \in TreeFiles}

\* every tree over TreePaths
FindTrees == {T \in SUBSET TreePaths : Closure(T) = T}

FindIdle ==
  /\ repo_path = {}
  /\ find_pc = "idle"
  /\ found_dirs = {}

\* one call of find_skill_dirs
DoFind ==
  /\ find_pc = "ready"
  /\ found_dirs' = find_skill_dirs_of(repo_path)
  /\ find_pc' = "returned"
  /\ UNCHANGED <<aggVars, pipeVars, extVars, dlVars, sideVars, repo_path>>
(***************************************************************************)
(* extract_repo                                                            *)
(***************************************************************************)
\* basename of temp_dir for the archive 1.zip
TempName == "temp_extract_1"

\* a zip file: its members in the order extractall writes them, and the
\* member at which extraction raises (0: none does)
Zip(members, bad) == [kind |-> "zip", members |-> members, bad |-> bad]

\* a file that is not a zip file, and no file at all
CorruptZip == [kind |-> "corrupt", members |-> <<>>, bad |-> 0]

MissingZip == [kind |-> "missing", members |-> <<>>, bad |-> 0]

\* member lists: the wrapper directory of a code-hosting archive, two
\* top-level directories, a single top-level file, no member, and a single
\* empty directory
MemberLists ==
  { << <<"project-main", "SKILL.md">>, <<"project-main", "sub", "tool.json">> >>,
    << <<"a", "SKILL.md">>, <<"b", "README.md">> >>,
    << <<"README.md">> >>,
    << >>,
    << <<"project-main">> >> }

ZipKinds ==
  {CorruptZip, MissingZip}
  \cup UNION {{Zip(m, bad) : bad \in 0..Len(m)} : m \in MemberLists}

\* what may lie at target_path before the first call: nothing, an empty
\* directory, or a directory with content of its own
Preexisting == Dir({<<"old.txt">>})

TargetKinds == {Absent, Dir({}), Preexisting}

\* the test that takes the empty directory for extracted
AlreadyExtractedWhenEmpty(target) ==
  target.kind = "dir" /\ target.entries = {}

\* target_path.exists() and any(target_path.iterdir())
AlreadyExtracted(target) ==
  target.kind = "dir" /\ target.entries # {}

\* zipfile's extraction of one member into a directory: the directories of
\* its path are made as needed
WriteMember(obj, member) == Dir(obj.entries \cup Prefixes(member))

\* extraction straight into the destination
ExtractedInPlace(target, temp, member) ==
  <<WriteMember(target, member), temp>>

\* zip_ref.extractall(temp_dir), one member: target_path and temp_dir after
\* it
ExtractedTo(target, temp, member) ==
  <<target, WriteMember(temp, member)>>

\* shutil.move(src, dst) for src named name: into dst when dst is a
\* directory, onto dst otherwise; ok is FALSE when it raises
shutil_move(src, name, dst) ==
  IF dst.kind = "dir"
  THEN IF <<name>> \in dst.entries
       THEN [ok |-> FALSE, dst |-> dst]
       ELSE [ok |-> TRUE, dst |-> Dir(dst.entries \cup Nest(name, src))]
  ELSE IF dst.kind = "file" /\ src.kind = "dir"
  THEN [ok |-> FALSE, dst |-> dst]
  ELSE [ok |-> TRUE, dst |-> src]

ExtIdle ==
  /\ zip_path = MissingZip
  /\ target_path = Absent
  /\ temp_dir = Absent
  /\ ext_pc = "idle"
  /\ ext_i = 0
  /\ ext_ret = "none"
  /\ ext_calls = 0

\* the return of extract_repo: by the shortcut ("shortcut"), after
\* unpacking ("unpacked"), with None from the except clause ("None"), or
\* by an exception that leaves it ("raised")
ExtReturn(how) ==
  /\ ext_pc' = "returned"
  /\ ext_ret' = how
  /\ ext_i' = 0

\* an except clause that returns None and leaves the staging directory
ExtFailKeepingTemp ==
  /\ UNCHANGED temp_dir
  /\ ExtReturn("None")

\* the except clause: the staging directory is removed if it exists
ExtFail ==
  /\ temp_dir' = Absent
  /\ ExtReturn("None")

\* scan_repo calls extract_repo(zip_path)
ExtCall ==
  /\ ext_pc \in {"idle", "returned"}
  /\ ext_calls < MaxCalls
  /\ ext_calls' = ext_calls + 1
  /\ ext_pc' = "probe"
  /\ ext_ret' = "none"
  /\ UNCHANGED <<aggVars, pipeVars, findVars, dlVars, sideVars, zip_path, target_path,
                 temp_dir, ext_i>>

\* the shortcut test; iterdir of a regular file raises outside the try
Probe ==
  /\ ext_pc = "probe"
  /\ IF target_path.kind = "file" THEN ExtReturn("raised")
     ELSE IF AlreadyExtracted(target_path) THEN ExtReturn("shortcut")
     ELSE /\ ext_pc' = "open"
          /\ UNCHANGED <<ext_ret, ext_i>>
  /\ UNCHANGED <<aggVars, pipeVars, findVars, dlVars, sideVars, zip_path, target_path,
                 temp_dir, ext_calls>>

\* zipfile.ZipFile(zip_path, 'r')
Open ==
  /\ ext_pc = "open"
  /\ IF zip_path.kind # "zip" THEN ExtFail
     ELSE /\ ext_pc' = "extractall"
          /\ ext_i' = 1
          /\ UNCHANGED <<ext_ret, temp_dir>>
  /\ UNCHANGED <<aggVars, pipeVars, findVars, dlVars, sideVars, zip_path, target_path,
                 ext_calls>>

\* extractall writes its next member, or raises at it
ExtractMember ==
  /\ ext_pc = "extractall"
  /\ ext_i <= Len(zip_path.members)
  /\ IF zip_path.bad = ext_i
     THEN ExtFail /\ UNCHANGED target_path
     ELSE LET after == ExtractedTo(target_path, temp_dir,
                                   zip_path.members[ext_i])
          IN  /\ target_path' = after[1]
              /\ temp_dir' = after[2]
              /\ ext_i' = ext_i + 1
              /\ UNCHANGED <<ext_pc, ext_ret>>
  /\ UNCHANGED <<aggVars, pipeVars, findVars, dlVars, sideVars, zip_path, ext_calls>>

\* extractall is through: the listing of temp_dir, the choice of
\* source_dir and shutil.move to target_path
Move ==
  /\ ext_pc = "extractall"
  /\ ext_i > Len(zip_path.members)
  /\ LET extracted_items == iterdir(temp_dir.entries)
         single == Cardinality(extracted_items) = 1
         name == IF single THEN CHOOSE n \in extracted_items : TRUE
                 ELSE TempName
         source_dir == IF single THEN At(temp_dir.entries, name) ELSE temp_dir
         moved == shutil_move(source_dir, name, target_path)
     IN  IF temp_dir.kind = "absent" \/ extracted_items = {} \/ ~moved.ok
         THEN ExtFail /\ UNCHANGED target_path
         ELSE /\ target_path' = moved.dst
              /\ temp_dir' = IF single THEN Dir({}) ELSE Absent
              /\ ext_pc' = "finish"
              /\ UNCHANGED <<ext_ret, ext_i>>
  /\ UNCHANGED <<aggVars, pipeVars, findVars, dlVars, sideVars, zip_path, ext_calls>>

\* rmtree of temp_dir, the count in scan_stats and the return
Finish ==
  /\ ext_pc = "finish"
  /\ temp_dir' = Absent
  /\ scan_stats' = [scan_stats EXCEPT ![1].scanned = @ + 1]
  /\ ExtReturn("unpacked")
  /\ UNCHANGED <<aggVars, fsVars, callVars, findVars, dlVars, sideVars, run_pc, zip_files,
                 prev_zip_files, batch_i, task, runs_done, run_start,
                 prev_result, overlap, zip_path, target_path, ext_calls>>

\* scan_repo finds no skill directory under the path extract_repo gave and
\* removes it; rmtree with ignore_errors leaves a regular file where it is
Reclaim ==
  /\ ext_pc = "returned"
  /\ ext_ret \in {"shortcut", "unpacked"}
  /\ find_skill_dirs_of(target_path.entries) = {}
  /\ target_path' = IF target_path.kind = "dir" THEN Absent ELSE target_path
  /\ ext_pc' = "idle"
  /\ UNCHANGED <<aggVars, pipeVars, findVars, dlVars, sideVars, zip_path, temp_dir, ext_i,
                 ext_ret, ext_calls>>

(***************************************************************************)
(* RepoDownloader: download_repo, _download_with_curl and download_all.    *)
(* A task is a dict with repo_id, repo, branch and possibly download_url;  *)
(* the slug of a repository is taken to be its repo_id.  A file of zip_dir *)
(* is absent, empty, partial (some bytes, not the whole archive) or        *)
(* complete.  curl writes the file in its own process, so a file carries   *)
(* the identity of its inode (ino, the attempt that created it) and the    *)
(* attempt that opened it last: an unlink takes the name away from the     *)
(* inode that a running curl keeps writing, and an open of an existing file *)
(* truncates it, so that the file holds the whole archive only when the    *)
(* transfer that opened it last has ended.  A transfer that ends with      *)
(* return code 0 after writing has written the whole archive.              *)
(***************************************************************************)
TaskIds == 1..NumTaskIds

Futures == 1..MaxTasks

Branches == {"main", "master", "dev"}

\* repo_info.get('download_url') of a task without the key
NoneValue == [kind |-> "None"]

\* a download_url supplied with the task
GivenUrl == [kind |-> "given"]

\* f"https://github.com/{repo}/archive/{branch}.zip"
ArchiveUrl(repo, branch) == [kind |-> "archive", repo |-> repo, branch |-> branch]

\* str(download_url): str(None) is the text None
Str(url) == IF url = NoneValue THEN [kind |-> "text", text |-> "None"] ELSE url

\* curl can receive data only from a URL; the text None names no host
Resolvable(url) == url.kind \in {"given", "archive"}

DlTasks ==
  [repo_id : TaskIds, branch : Branches, download_url : {NoneValue, GivenUrl}]

NoDlTask == [repo_id |-> 0, branch |-> "main", download_url |-> NoneValue]

\* no attempt, and the attempt of download_repo numbered a of future i
NoAttempt == <<0, 0>>

AttemptId(i, a) == <<i, a + 1>>

NoFile == [state |-> "absent", ino |-> NoAttempt, last |-> NoAttempt]

\* a file that was in zip_dir before the downloader started
OldFile(state) == [state |-> state, ino |-> NoAttempt, last |-> NoAttempt]

\* Path.exists()
Exists(f) == f.state # "absent"

\* a Size that takes every file for empty
SizeAlwaysZero(f) == 0

\* Path.stat().st_size of an existing file, up to what the code compares
Size(f) == CASE f.state = "empty" -> 0
             [] f.state = "partial" -> 1
             [] f.state = "complete" -> 2

\* the message of a success that leaves the branch out
DownloadedMsgPlain(branch_display) == <<"Downloaded", "size">>

\* the messages of download_repo, as their parts in order
AlreadyMsg == <<"Already exists", "size">>

DownloadedMsg(branch_display) == <<"Downloaded", "size">> \o branch_display

FailedBranchMsg(branch_display) == <<"Download failed", "branch:">> \o branch_display

FailedMsg == <<"Download failed">>

\* part in msg
Contains(msg, part) == \E j \in 1..Len(msg) : msg[j] = part

NoReturn == [success |-> FALSE, repo_id |-> 0, msg |-> <<>>]

\* the frame of a call of download_repo; attempts records, for each attempt
\* made, the URL handed to curl and how the attempt ended
NoFrame ==
  [pc |-> "none", task |-> NoDlTask, attempt |-> 0, download_url |-> NoneValue,
   branch_display |-> <<>>, attempts |-> <<>>, opened |-> NoAttempt,
   ret |-> NoReturn]

\* the return statement of download_repo
Return(fr, success, msg) ==
  [fr EXCEPT !.pc = "returned",
             !.ret = [success |-> success, repo_id |-> fr.task.repo_id,
                      msg |-> msg]]

\* the attempt under way ends as result
Ended(fr, result) ==
  [fr EXCEPT !.attempts[Len(fr.attempts)].result = result]

\* continue: the next round of "for attempt in range(2)"
Continue(fr) == [fr EXCEPT !.pc = "attempt", !.attempt = fr.attempt + 1]

\* a direct call download_repo(t)
Acquire(i, t) ==
  /\ pool_pc = "idle"
  /\ download[i].pc \in {"none", "returned", "raised"}
  /\ acq_calls < MaxAcquires
  /\ download' = [download EXCEPT ![i] =
                    [NoFrame EXCEPT !.pc = "check", !.task = t]]
  /\ acq_calls' = acq_calls + 1
  /\ UNCHANGED <<aggVars, pipeVars, extVars, findVars, sideVars,
                 branch_fallback, zip_dir, repo_mapping,
                 pool_pc, tally, completed>>

\* the test "zip_path.exists() and zip_path.stat().st_size > 0", and
\* download_url = repo_info.get('download_url') when it fails
DlCheck(i) ==
  LET fr == download[i]
      f == zip_dir[fr.task.repo_id]
  IN  /\ fr.pc = "check"
      /\ download' = [download EXCEPT ![i] =
           IF Exists(f) /\ Size(f) > 0
           THEN [fr EXCEPT !.pc = "already"]
           ELSE [fr EXCEPT !.pc = "attempt", !.attempt = 0,
                           !.download_url = fr.task.download_url]]
      /\ UNCHANGED <<aggVars, pipeVars, extVars, findVars, sideVars,
                 branch_fallback, zip_dir,
                     repo_mapping, pool_pc, tally, completed, acq_calls>>

\* return True, repo_id, f"Already exists (...)": the message needs stat()
\* once more, which raises outside the try when the file is gone
DlAlready(i) ==
  LET fr == download[i]
      f == zip_dir[fr.task.repo_id]
  IN  /\ fr.pc = "already"
      /\ download' = [download EXCEPT ![i] =
           IF Exists(f) THEN Return(fr, TRUE, AlreadyMsg)
           ELSE [fr EXCEPT !.pc = "raised"]]
      /\ UNCHANGED <<aggVars, pipeVars, extVars, findVars, sideVars,
                 branch_fallback, zip_dir,
                     repo_mapping, pool_pc, tally, completed, acq_calls>>

\* the head of "for attempt in range(2)" up to the call of curl, and the
\* return after the loop
DlAttempt(i) ==
  LET fr == download[i]
      primary_branch == fr.task.branch
      fallback_branch == IF primary_branch = "main" THEN "master" ELSE "main"
      url == IF fr.attempt = 0 THEN fr.download_url
             ELSE ArchiveUrl(fr.task.repo_id, fallback_branch)
      display == IF fr.attempt = 0 THEN <<primary_branch>>
                 ELSE <<fallback_branch, "(fallback)">>
  IN  /\ fr.pc = "attempt"
      /\ download' = [download EXCEPT ![i] =
           IF fr.attempt = 2 THEN Return(fr, FALSE, FailedMsg)
           ELSE [fr EXCEPT !.pc = "curl", !.download_url = url,
                           !.branch_display = display,
                           !.opened = NoAttempt,
                           !.attempts = Append(fr.attempts,
                              [url |-> Str(url), result |-> "running"])]]
      /\ UNCHANGED <<aggVars, pipeVars, extVars, findVars, sideVars,
                 branch_fallback, zip_dir,
                     repo_mapping, pool_pc, tally, completed, acq_calls>>

\* curl receives the first data: it creates the file, or truncates the one
\* that is there, and writes
CurlWrite(i) ==
  LET fr == download[i]
      f == zip_dir[fr.task.repo_id]
      me == AttemptId(i, fr.attempt)
      ino == IF Exists(f) THEN f.ino ELSE me
  IN  /\ fr.pc = "curl"
      /\ Resolvable(Str(fr.download_url))
      /\ zip_dir' = [zip_dir EXCEPT ![fr.task.repo_id] =
                       [state |-> "partial", ino |-> ino, last |-> me]]
      /\ download' = [download EXCEPT ![i] =
                        [fr EXCEPT !.pc = "writing", !.opened = ino]]
      /\ UNCHANGED <<aggVars, pipeVars, extVars, findVars, sideVars,
                 branch_fallback, repo_mapping,
                     pool_pc, tally, completed, acq_calls>>

\* how subprocess.run of curl can end: return code 0, return code 0 with an
\* empty file created, another return code, an exception (TimeoutExpired)
CurlOutcomes == {"rc0", "rc0_empty", "rc_other", "raise"}

\* the file at the path when curl has ended as outcome
AfterCurl(fr, f, me, outcome) ==
  IF fr.pc = "curl"
  THEN IF outcome = "rc0_empty"
       THEN [state |-> "empty", ino |-> IF Exists(f) THEN f.ino ELSE me,
             last |-> me]
       ELSE f
  ELSE IF outcome = "rc0" /\ Exists(f) /\ f.ino = fr.opened /\ f.last = me
       THEN [f EXCEPT !.state = "complete"]
       ELSE f

\* _download_with_curl from the end of curl on, and what download_repo does
\* with its result: "returncode == 0 and stat().st_size > 0", where stat
\* raises when the file is not there
CurlExit(i, outcome) ==
  LET fr == download[i]
      f == zip_dir[fr.task.repo_id]
      me == AttemptId(i, fr.attempt)
      after == AfterCurl(fr, f, me, outcome)
      result == IF outcome = "raise" THEN "exception"
                ELSE IF outcome = "rc_other" THEN "failed"
                ELSE IF ~Exists(after) THEN "exception"
                ELSE IF Size(after) > 0 THEN "success"
                ELSE "failed"
      ended == Ended(fr, result)
  IN  /\ fr.pc \in {"curl", "writing"}
      /\ outcome = "rc0_empty" => fr.pc = "curl"
      /\ zip_dir' = [zip_dir EXCEPT ![fr.task.repo_id] = after]
      /\ download' = [download EXCEPT ![i] =
           CASE result = "success" -> [ended EXCEPT !.pc = "stat"]
             [] result = "exception" -> [ended EXCEPT !.pc = "handler"]
             [] result = "failed" ->
                  IF fr.attempt = 0 THEN [ended EXCEPT !.pc = "unlink"]
                  ELSE Return(ended, FALSE, FailedBranchMsg(fr.branch_display))]
      /\ UNCHANGED <<aggVars, pipeVars, extVars, findVars, sideVars,
                 branch_fallback, repo_mapping,
                     pool_pc, tally, completed, acq_calls>>

\* file_size = zip_path.stat().st_size and the return of the success
DlStat(i) ==
  LET fr == download[i]
      f == zip_dir[fr.task.repo_id]
  IN  /\ fr.pc = "stat"
      /\ download' = [download EXCEPT ![i] =
           IF Exists(f) THEN Return(fr, TRUE, DownloadedMsg(fr.branch_display))
           ELSE [Ended(fr, "exception") EXCEPT !.pc = "handler"]]
      /\ UNCHANGED <<aggVars, pipeVars, extVars, findVars, sideVars,
                 branch_fallback, zip_dir,
                     repo_mapping, pool_pc, tally, completed, acq_calls>>

\* the first attempt returned False: "if zip_path.exists(): zip_path.unlink()"
\* and continue
DlUnlink(i) ==
  LET fr == download[i]
  IN  /\ fr.pc = "unlink"
      /\ zip_dir' = [zip_dir EXCEPT ![fr.task.repo_id] = NoFile]
      /\ download' = [download EXCEPT ![i] = Continue(fr)]
      /\ UNCHANGED <<aggVars, pipeVars, extVars, findVars, sideVars,
                 branch_fallback, repo_mapping,
                     pool_pc, tally, completed, acq_calls>>

\* except Exception: the test "attempt == 0 and zip_path.exists()"
DlHandler(i) ==
  LET fr == download[i]
      f == zip_dir[fr.task.repo_id]
  IN  /\ fr.pc = "handler"
      /\ download' = [download EXCEPT ![i] =
           IF fr.attempt = 0 /\ Exists(f)
           THEN [fr EXCEPT !.pc = "unlink_exc"]
           ELSE Continue(fr)]
      /\ UNCHANGED <<aggVars, pipeVars, extVars, findVars, sideVars,
                 branch_fallback, zip_dir,
                     repo_mapping, pool_pc, tally, completed, acq_calls>>

\* zip_path.unlink() inside the handler, which raises out of download_repo
\* when the file is gone, and continue
DlUnlinkExc(i) ==
  LET fr == download[i]
      f == zip_dir[fr.task.repo_id]
  IN  /\ fr.pc = "unlink_exc"
      /\ IF Exists(f)
         THEN /\ zip_dir' = [zip_dir EXCEPT ![fr.task.repo_id] = NoFile]
              /\ download' = [download EXCEPT ![i] = Continue(fr)]
         ELSE /\ download' = [download EXCEPT ![i] = [fr EXCEPT !.pc = "raised"]]
              /\ UNCHANGED zip_dir
      /\ UNCHANGED <<aggVars, pipeVars, extVars, findVars, sideVars,
                 branch_fallback, repo_mapping,
                     pool_pc, tally, completed, acq_calls>>

\* one step of the call of download_repo of future i
FrameStep(i) ==
  \/ DlCheck(i)
  \/ DlAlready(i)
  \/ DlAttempt(i)
  \/ CurlWrite(i)
  \/ \E outcome \in CurlOutcomes : CurlExit(i, outcome)
  \/ DlStat(i)
  \/ DlUnlink(i)
  \/ DlHandler(i)
  \/ DlUnlinkExc(i)

ZeroTally == [success |-> 0, failed |-> 0, skipped |-> 0]

\* download_all up to the submission of every task; "if limit:" takes None
\* and 0 alike for no limit
DownloadAll(mapping, has_limit, limit) ==
  LET sliced == IF has_limit /\ limit # 0 THEN SliceTo(mapping, limit)
                ELSE mapping
  IN  /\ pool_pc = "idle"
      /\ acq_calls = 0
      /\ repo_mapping' = sliced
      /\ download' = [i \in Futures |->
                        IF i <= Len(sliced)
                        THEN [NoFrame EXCEPT !.pc = "queued", !.task = sliced[i]]
                        ELSE NoFrame]
      /\ tally' = ZeroTally
      /\ completed' = {}
      /\ pool_pc' = "running"
      /\ UNCHANGED <<aggVars, pipeVars, extVars, findVars, sideVars,
                 branch_fallback, zip_dir, acq_calls>>

\* the positions of a frame while a worker of the pool runs it
Downloading ==
  {"check", "already", "attempt", "curl", "writing", "stat", "unlink",
   "handler", "unlink_exc"}

\* a free worker of the pool takes the oldest task waiting
PoolStart(i) ==
  /\ pool_pc = "running"
  /\ download[i].pc = "queued"
  /\ \A j \in Futures : j < i => download[j].pc # "queued"
  /\ Cardinality({j \in Futures : download[j].pc \in Downloading}) < MaxDownloads
  /\ download' = [download EXCEPT ![i].pc = "check"]
  /\ UNCHANGED <<aggVars, pipeVars, extVars, findVars, sideVars,
                 branch_fallback, zip_dir, repo_mapping,
                 pool_pc, tally, completed, acq_calls>>

\* a counter that tells only success from failure
CounterBySuccess(fr) ==
  IF fr.pc = "returned" /\ fr.ret.success THEN "success" ELSE "failed"

\* the counter a finished future adds to
Counter(fr) ==
  IF fr.pc = "raised" THEN "failed"
  ELSE IF ~fr.ret.success THEN "failed"
  ELSE IF Contains(fr.ret.msg, "Already exists") THEN "skipped"
  ELSE "success"

\* one round of "for future in as_completed(futures)"
Tally(i) ==
  /\ pool_pc = "running"
  /\ download[i].pc \in {"returned", "raised"}
  /\ i \notin completed
  /\ tally' = [tally EXCEPT ![Counter(download[i])] = @ + 1]
  /\ completed' = completed \cup {i}
  /\ UNCHANGED <<aggVars, pipeVars, extVars, findVars, sideVars,
                 branch_fallback, zip_dir, download,
                 repo_mapping, pool_pc, acq_calls>>

\* the dict download_all returns
Summary ==
  [total |-> Len(repo_mapping), success |-> tally.success,
   failed |-> tally.failed, skipped |-> tally.skipped]

\* every future was yielded: the pool shuts down and download_all returns
PoolReturn ==
  /\ pool_pc = "running"
  /\ completed = 1..Len(repo_mapping)
  /\ pool_pc' = "returned"
  /\ UNCHANGED <<aggVars, pipeVars, extVars, findVars, sideVars,
                 branch_fallback, zip_dir, download,
                 repo_mapping, tally, completed, acq_calls>>

\* the downloader is not used
DlIdle ==
  /\ zip_dir = [p \in TaskIds |-> NoFile]
  /\ download = [i \in Futures |-> NoFrame]
  /\ repo_mapping = <<>>
  /\ pool_pc = "idle"
  /\ tally = ZeroTally
  /\ completed = {}
  /\ acq_calls = 0
  /\ branch_fallback = TRUE

(***************************************************************************)
(* APIKeyPool (code/utils/api_key_pool.py)                                 *)
(***************************************************************************)
Callers == 1..NumCallers

\* the index file: not there, there and empty (opened for writing, nothing
\* written yet), or holding str(value)
NoIndexFile == [state |-> "absent", value |-> 0]

EmptyIndexFile == [state |-> "empty", value |-> 0]

IndexFile(value) == [state |-> "written", value |-> value]

\* a caller before it has a pool object
NewCaller == [pc |-> "new", index |-> 0]

\* Path.write_text is open(mode='w'), which creates or truncates the file,
\* and then the write: the file after the open
Truncated(f) == EmptyIndexFile

\* next_index = (index + 1) % len(keys)
NextIndex(index, n) == (index + 1) % n

\* APIKeyPool.__init__: "if not self.index_file.exists()"
Construct(c) ==
  /\ key_caller[c].pc = "new"
  /\ key_caller' = [key_caller EXCEPT ![c].pc =
                      IF index_file.state = "absent" THEN "init_open"
                      ELSE "ready"]
  /\ UNCHANGED <<aggVars, pipeVars, extVars, findVars, dlVars, auditVars,
                 pool_size, index_file, lock_owner, granted>>

\* __init__: self.index_file.write_text("0"), the open
InitOpen(c) ==
  /\ key_caller[c].pc = "init_open"
  /\ index_file' = Truncated(index_file)
  /\ key_caller' = [key_caller EXCEPT ![c].pc = "init_write"]
  /\ UNCHANGED <<aggVars, pipeVars, extVars, findVars, dlVars, auditVars,
                 pool_size, lock_owner, granted>>

\* __init__: self.index_file.write_text("0"), the write
InitWrite(c) ==
  /\ key_caller[c].pc = "init_write"
  /\ index_file' = IndexFile(0)
  /\ key_caller' = [key_caller EXCEPT ![c].pc = "ready"]
  /\ UNCHANGED <<aggVars, pipeVars, extVars, findVars, dlVars, auditVars,
                 pool_size, lock_owner, granted>>

\* get_next_key: load_keys, which gives the pool_size keys, and the open of
\* the lock file
GetNextKey(c) ==
  /\ key_caller[c].pc = "ready"
  /\ Len(granted) < MaxGrants
  /\ key_caller' = [key_caller EXCEPT ![c].pc = "flock"]
  /\ UNCHANGED <<aggVars, pipeVars, extVars, findVars, dlVars, auditVars,
                 pool_size, index_file, lock_owner, granted>>

\* fcntl.flock(lock_fh.fileno(), fcntl.LOCK_EX) returns
Flock(c) ==
  /\ key_caller[c].pc = "flock"
  /\ lock_owner = 0
  /\ lock_owner' = c
  /\ key_caller' = [key_caller EXCEPT ![c].pc = "read"]
  /\ UNCHANGED <<aggVars, pipeVars, extVars, findVars, dlVars, auditVars,
                 pool_size, index_file, granted>>

\* the read of the index, int() of it (which raises on the empty text; the
\* finally clause unlocks), and key = keys[index % len(keys)]
ReadIndex(c) ==
  /\ key_caller[c].pc = "read"
  /\ IF index_file.state = "empty"
     THEN /\ key_caller' = [key_caller EXCEPT ![c].pc = "raised"]
          /\ lock_owner' = 0
          /\ UNCHANGED granted
     ELSE LET index == IF index_file.state = "written" THEN index_file.value
                       ELSE 0
          IN  /\ key_caller' = [key_caller EXCEPT
                                  ![c] = [pc |-> "write_open", index |-> index]]
              /\ granted' = Append(granted, index % pool_size)
              /\ UNCHANGED lock_owner
  /\ UNCHANGED <<aggVars, pipeVars, extVars, findVars, dlVars, auditVars,
                 pool_size, index_file>>

\* self.index_file.write_text(str(next_index)), the open
WriteOpen(c) ==
  /\ key_caller[c].pc = "write_open"
  /\ index_file' = Truncated(index_file)
  /\ key_caller' = [key_caller EXCEPT ![c].pc = "write"]
  /\ UNCHANGED <<aggVars, pipeVars, extVars, findVars, dlVars, auditVars,
                 pool_size, lock_owner, granted>>

\* self.index_file.write_text(str(next_index)), the write
WriteIndex(c) ==
  /\ key_caller[c].pc = "write"
  /\ index_file' = IndexFile(NextIndex(key_caller[c].index, pool_size))
  /\ key_caller' = [key_caller EXCEPT ![c].pc = "unlock"]
  /\ UNCHANGED <<aggVars, pipeVars, extVars, findVars, dlVars, auditVars,
                 pool_size, lock_owner, granted>>

\* return key: the finally clause unlocks
Unlock(c) ==
  /\ key_caller[c].pc = "unlock"
  /\ lock_owner' = 0
  /\ key_caller' = [key_caller EXCEPT ![c] = [pc |-> "ready", index |-> 0]]
  /\ UNCHANGED <<aggVars, pipeVars, extVars, findVars, dlVars, auditVars,
                 pool_size, index_file, granted>>

\* a step of caller c
KeyStep(c) ==
  \/ Construct(c)
  \/ InitOpen(c)
  \/ InitWrite(c)
  \/ GetNextKey(c)
  \/ Flock(c)
  \/ ReadIndex(c)
  \/ WriteOpen(c)
  \/ WriteIndex(c)
  \/ Unlock(c)

\* the key pool is not used
KeysIdle ==
  /\ pool_size = 1
  /\ index_file = NoIndexFile
  /\ lock_owner = 0
  /\ key_caller = [c \in Callers |-> NewCaller]
  /\ granted = <<>>

(***************************************************************************)
(* analyze_skill (run_openclaw_scan.py)                                    *)
(***************************************************************************)
\* the result directories, in the order analyze_skill looks into them
CategoryOrder == <<"SAFE", "SUSPICIOUS", "MALICIOUS", "ERROR">>

Categories == {CategoryOrder[i] : i \in 1..Len(CategoryOrder)}

OUTPUT_SUFFIX == "_audit.json"

\* f"{repo_id}_{skill_name}{OUTPUT_SUFFIX}", a name as the list of its parts
AuditFileName(repo_id, skill_name) ==
  <<repo_id, "_", skill_name, OUTPUT_SUFFIX>>

\* f"{filename}.api_fail" and the like
ErrorFileName(filename, ext) == Append(filename, ext)

\* the one skill of SpecAudit
AuditRepo == "1"

AuditSkill == "skill"

\* the status strings "STATUS|repo_id|skill_name|verdict", as their fields
StatusLine(status, verdict) == <<status, AuditRepo, AuditSkill, verdict>>

NoStatusLine == <<"none", AuditRepo, AuditSkill, "none">>

\* (results_dir / category / name).exists()
PathExists(category, name) == <<category, name>> \in results_dir

\* "for category in [...]: if (results_dir / category / filename).exists()"
AlreadyAnalyzed(filename) ==
  \E category \in Categories : PathExists(category, filename)

\* how one attempt can go: the analyzer exits non-zero or prints nothing,
\* prints no JSON, gives one of the three verdicts, gives another status or
\* none, runs into the timeout, or something raises
AttemptOutcomes ==
  {"api_fail", "invalid_json", "SAFE", "SUSPICIOUS", "MALICIOUS",
   "status_missing", "timeout", "exception"}

\* the return of analyze_skill
AuditReturn(line) ==
  /\ audit_pc' = "returned"
  /\ audit_ret' = line
  /\ attempt' = 0

\* the branch of an attempt that failed: "if attempt < retries: ...
\* continue", and at the last attempt the error file, if there is one for
\* the failure, and the return
RetryOr(ext, verdict) ==
  IF attempt < retries
  THEN /\ attempt' = attempt + 1
       /\ UNCHANGED <<audit_pc, audit_ret, results_dir>>
  ELSE /\ results_dir' =
            IF ext = "" THEN results_dir
            ELSE results_dir \cup
                   {<<"ERROR",
                      ErrorFileName(AuditFileName(AuditRepo, AuditSkill), ext)>>}
       /\ AuditReturn(StatusLine("ERROR", verdict))

\* a run of the audit calls analyze_skill for the skill
AnalyzeSkill ==
  /\ audit_pc \in {"idle", "returned"}
  /\ audit_calls < MaxAudits
  /\ audit_calls' = audit_calls + 1
  /\ prev_audit_ret' = audit_ret
  /\ audit_ret' = NoStatusLine
  /\ analyzer_runs' = 0
  /\ audit_pc' = "check"
  /\ UNCHANGED <<aggVars, pipeVars, extVars, findVars, dlVars, keyVars,
                 results_dir, attempt, retries>>

\* the skip test, and the head of "for attempt in range(1, retries + 1)"
SkipCheck ==
  /\ audit_pc = "check"
  /\ IF AlreadyAnalyzed(AuditFileName(AuditRepo, AuditSkill))
     THEN AuditReturn(StatusLine("SKIP", "EXISTS"))
     ELSE IF retries = 0
     THEN AuditReturn(StatusLine("ERROR", "EXHAUSTED_RETRIES"))
     ELSE /\ attempt' = 1
          /\ audit_pc' = "run"
          /\ UNCHANGED audit_ret
  /\ UNCHANGED <<aggVars, pipeVars, extVars, findVars, dlVars, keyVars,
                 results_dir, retries, prev_audit_ret, analyzer_runs,
                 audit_calls>>

\* one turn of the loop: subprocess.run of the analyzer and what follows
Attempt(outcome) ==
  /\ audit_pc = "run"
  /\ analyzer_runs' = analyzer_runs + 1
  /\ CASE outcome = "api_fail" -> RetryOr(".api_fail", "API_FAIL")
       [] outcome = "invalid_json" -> RetryOr(".parse_err", "INVALID_JSON")
       [] outcome = "timeout" -> RetryOr("", "TIMEOUT")
       [] outcome = "exception" -> RetryOr("", "EXCEPTION")
       [] outcome = "status_missing" ->
            /\ results_dir' = results_dir \cup
                 {<<"ERROR",
                    ErrorFileName(AuditFileName(AuditRepo, AuditSkill),
                                  ".status_missing")>>}
            /\ AuditReturn(StatusLine("ERROR", "STATUS_MISSING"))
       [] OTHER ->
            /\ results_dir' = results_dir \cup
                 {<<outcome, AuditFileName(AuditRepo, AuditSkill)>>}
            /\ AuditReturn(StatusLine("DONE", outcome))
  /\ UNCHANGED <<aggVars, pipeVars, extVars, findVars, dlVars, keyVars,
                 retries, prev_audit_ret, audit_calls>>

\* the audit is not used
AuditIdle ==
  /\ results_dir = {}
  /\ audit_pc = "idle"
  /\ attempt = 0
  /\ retries = 0
  /\ audit_ret = NoStatusLine
  /\ prev_audit_ret = NoStatusLine
  /\ analyzer_runs = 0
  /\ audit_calls = 0

\* neither the key pool nor the audit is used
SideIdle == KeysIdle /\ AuditIdle
InitClassify ==
  /\ thresholds \in ThresholdSets
  /\ in_score \in ClassifyScores
  /\ cls_out = "none"
  /\ in_reports = <<>>
  /\ agg_out = "none"
  /\ InitPipe({[r \in Repos |-> NoArchive]})
  /\ max_workers = MaxWorkers
  /\ SideIdle
  /\ DlIdle
  /\ ExtIdle
  /\ FindIdle

\* one pass of the ladder for the score at hand
DoClassify ==
  /\ cls_out = "none"
  /\ cls_out' = Classify(in_score, thresholds)
  /\ UNCHANGED <<thresholds, in_score, in_reports, agg_out, pipeVars, unitVars>>

NextClassify == DoClassify

SpecClassify == InitClassify /\ [][NextClassify]_vars

InitAgg ==
  /\ thresholds \in AggThresholdSets
  /\ in_score = 0
  /\ cls_out = "none"
  /\ in_reports \in SeqsUpTo(SkillReports, MaxReports)
  /\ agg_out = "none"
  /\ InitPipe({[r \in Repos |-> NoArchive]})
  /\ max_workers = MaxWorkers
  /\ SideIdle
  /\ DlIdle
  /\ ExtIdle
  /\ FindIdle

\* one call of calculate_repo_risk
DoAggregate ==
  /\ agg_out = "none"
  /\ agg_out' = calculate_repo_risk(in_reports, thresholds)
  /\ UNCHANGED <<thresholds, in_score, cls_out, in_reports, pipeVars, unitVars>>

NextAgg == DoAggregate

SpecAgg == InitAgg /\ [][NextAgg]_vars

\* the lowest and the highest sample score
ExtremeScores == {1, 2 * NumScoreSamples - 1}

\* one scanner process at a time over a workspace that holds every archive,
\* each with at most one skill directory; scan_all is called with its
\* default arguments, by a scanner set up with 1 to MaxWorkers workers
Init ==
  /\ AggIdle
  /\ ExtIdle
  /\ FindIdle
  /\ InitPipe([Repos -> ArchiveKinds(1)])
  /\ max_workers \in 1..MaxWorkers
  /\ SideIdle
  /\ DlIdle

Next ==
  \/ StartRun(1, 0, FALSE, 0)
  \/ Step(1, ExtremeScores)

Spec == Init /\ [][Next]_vars

\* Spec, for a scanner of MaxWorkers workers, with the threads of a call
\* scheduled: a worker thread that can take
\* a step of scan_repo takes it, extract_repo and the analyzer (which
\* subprocess.run ends at the timeout) come back, and the main thread takes
\* a future that completed
InitLive == Init /\ max_workers = MaxWorkers

SpecLive == InitLive /\ [][Next]_vars /\ WF_vars(Step(1, ExtremeScores))

\* two scanner processes over a workspace that holds the archive 1.zip,
\* with up to MaxBundles skill directories
InitConc ==
  /\ AggIdle
  /\ ExtIdle
  /\ FindIdle
  /\ InitPipe({[r \in Repos |-> IF r = 1 THEN a ELSE NoArchive] :
                 a \in ArchiveKinds(MaxBundles)})
  /\ max_workers = MaxWorkers
  /\ SideIdle
  /\ DlIdle

NextConc ==
  \E k \in Procs :
    \/ StartRun(k, 0, FALSE, 0)
    \/ Step(k, SampleScores)

SpecConc == InitConc /\ [][NextConc]_vars


\* find_skill_dirs called once on a tree
InitFind ==
  /\ AggIdle
  /\ InitPipe({[r \in Repos |-> NoArchive]})
  /\ max_workers = MaxWorkers
  /\ SideIdle
  /\ DlIdle
  /\ ExtIdle
  /\ repo_path \in FindTrees
  /\ find_pc = "ready"
  /\ found_dirs = {}

NextFind == DoFind

SpecFind == InitFind /\ [][NextFind]_vars

\* extract_repo called for the archive 1.zip by one scanner at a time
InitExtract ==
  /\ AggIdle
  /\ InitPipe({[r \in Repos |-> NoArchive]})
  /\ max_workers = MaxWorkers
  /\ SideIdle
  /\ DlIdle
  /\ FindIdle
  /\ zip_path \in ZipKinds
  /\ target_path \in TargetKinds
  /\ temp_dir = Absent
  /\ ext_pc = "idle"
  /\ ext_i = 0
  /\ ext_ret = "none"
  /\ ext_calls = 0

NextExtract ==
  \/ ExtCall
  \/ Probe
  \/ Open
  \/ ExtractMember
  \/ Move
  \/ Finish
  \/ Reclaim

SpecExtract == InitExtract /\ [][NextExtract]_vars

(***************************************************************************)
(* SpecAcquire: calls of download_repo one after another, for every task   *)
(* and every file already at the archive path.  A step of download_repo is *)
(* a statement that ends; subprocess.run ends curl after timeout + 10      *)
(* seconds at the latest, hence the fairness of the steps of the call.     *)
(***************************************************************************)
InitialFiles == {NoFile} \cup {OldFile(s) : s \in {"empty", "partial", "complete"}}

InitAcquire ==
  /\ AggIdle
  /\ ExtIdle
  /\ FindIdle
  /\ InitPipe({[r \in Repos |-> NoArchive]})
  /\ max_workers = MaxWorkers
  /\ SideIdle
  /\ zip_dir \in [TaskIds -> InitialFiles]
  /\ download = [i \in Futures |-> NoFrame]
  /\ repo_mapping = <<>>
  /\ pool_pc = "idle"
  /\ tally = ZeroTally
  /\ completed = {}
  /\ acq_calls = 0
  /\ branch_fallback \in BOOLEAN

NextAcquire ==
  \/ \E t \in DlTasks : Acquire(1, t)
  \/ FrameStep(1)

SpecAcquire == InitAcquire /\ [][NextAcquire]_vars /\ WF_vars(FrameStep(1))

(***************************************************************************)
(* SpecAcquireAll: one call of download_all on a list of up to MaxTasks    *)
(* tasks, duplicates included, over a pool of MaxDownloads workers.  The    *)
(* archive of the last repo_id is there from the start, the others are not. *)
(***************************************************************************)
PoolTasks ==
  {[repo_id |-> p, branch |-> "main", download_url |-> GivenUrl] : p \in TaskIds}

InitAcquireAll ==
  /\ AggIdle
  /\ ExtIdle
  /\ FindIdle
  /\ InitPipe({[r \in Repos |-> NoArchive]})
  /\ max_workers = MaxWorkers
  /\ SideIdle
  /\ zip_dir = [p \in TaskIds |-> IF p = NumTaskIds THEN OldFile("complete")
                                  ELSE NoFile]
  /\ download = [i \in Futures |-> NoFrame]
  /\ repo_mapping = <<>>
  /\ pool_pc = "idle"
  /\ tally = ZeroTally
  /\ completed = {}
  /\ acq_calls = 0
  /\ branch_fallback = TRUE

NextAcquireAll ==
  \/ \E mapping \in SeqsUpTo(PoolTasks, MaxTasks), has_limit \in BOOLEAN,
        limit \in 0..MaxTasks : DownloadAll(mapping, has_limit, limit)
  \/ \E i \in Futures : PoolStart(i)
  \/ \E i \in Futures : FrameStep(i)
  \/ \E i \in Futures : Tally(i)
  \/ PoolReturn

SpecAcquireAll == InitAcquireAll /\ [][NextAcquireAll]_vars

(***************************************************************************)
(* SpecSlice: one scanner process that calls scan_all with every start_from *)
(* and limit over a workspace in which the first archive holds one skill   *)
(* directory and each other archive is corrupt or missing.                 *)
(***************************************************************************)
SliceStarts == 0..NumRepos

SliceLimits == 0..NumRepos

InitSlice ==
  /\ AggIdle
  /\ ExtIdle
  /\ FindIdle
  /\ DlIdle
  /\ InitPipe({a \in [Repos -> ArchiveKinds(1) \cup {NoArchive}] :
                 /\ a[1] = [kind |-> "valid", skill_dirs |-> 1]
                 /\ \A r \in Repos \ {1} : a[r].kind \in {"corrupt", "absent"}})
  /\ max_workers = MaxWorkers
  /\ SideIdle

NextSlice ==
  \/ \E start_from \in SliceStarts, has_limit \in BOOLEAN, limit \in SliceLimits :
       /\ has_limit \/ limit = 0
       /\ StartRun(1, start_from, has_limit, limit)
  \/ Step(1, ExtremeScores)

SpecSlice == InitSlice /\ [][NextSlice]_vars

(***************************************************************************)
(* SpecKeys: NumCallers callers, threads or processes, each of which makes *)
(* a pool object of its own (as get_api_key does) and then takes keys; the *)
(* index file holds an index of the pool or is not there yet.              *)
(***************************************************************************)
InitKeys ==
  /\ AggIdle
  /\ ExtIdle
  /\ FindIdle
  /\ DlIdle
  /\ AuditIdle
  /\ InitPipe({[r \in Repos |-> NoArchive]})
  /\ max_workers = MaxWorkers
  /\ pool_size \in 1..MaxKeys
  /\ index_file \in {NoIndexFile} \cup {IndexFile(v) : v \in 0..(pool_size - 1)}
  /\ lock_owner = 0
  /\ key_caller = [c \in Callers |-> NewCaller]
  /\ granted = <<>>

NextKeys == \E c \in Callers : KeyStep(c)

SpecKeys == InitKeys /\ [][NextKeys]_vars

(***************************************************************************)
(* SpecAudit: analyze_skill called for one skill, run after run, with      *)
(* retries from 0 to MaxRetries, over a results directory that starts      *)
(* empty.                                                                  *)
(***************************************************************************)
InitAudit ==
  /\ AggIdle
  /\ ExtIdle
  /\ FindIdle
  /\ DlIdle
  /\ KeysIdle
  /\ InitPipe({[r \in Repos |-> NoArchive]})
  /\ max_workers = MaxWorkers
  /\ results_dir = {}
  /\ audit_pc = "idle"
  /\ attempt = 0
  /\ retries \in 0..MaxRetries
  /\ audit_ret = NoStatusLine
  /\ prev_audit_ret = NoStatusLine
  /\ analyzer_runs = 0
  /\ audit_calls = 0

NextAudit ==
  \/ AnalyzeSkill
  \/ SkipCheck
  \/ \E outcome \in AttemptOutcomes : Attempt(outcome)

SpecAudit == InitAudit /\ [][NextAudit]_vars
(***************************************************************************)
(* Properties of calculate_repo_risk.                                      *)
(***************************************************************************)
\* the level the ladder gives the i-th report of the list at hand
ClassOfReport(i) ==
  Classify(DictGet(in_reports[i], "risk_score", 0), thresholds)

AggregatedNonEmpty == agg_out # "none" /\ in_reports # <<>>

\* C6: for a non-empty list of reports the verdict is the level of highest
\* priority among the levels the reports classify to: no report classifies
\* to a level of higher priority, at least one classifies to the verdict,
\* and the verdict is never UNKNOWN.
C6_VerdictIsHighestClass ==
  AggregatedNonEmpty =>
    /\ \A i \in 1..Len(in_reports) :
         RISK_PRIORITY[agg_out[1]] >= RISK_PRIORITY[ClassOfReport(i)]
    /\ \E i \in 1..Len(in_reports) : agg_out[1] = ClassOfReport(i)
    /\ agg_out[1] # "UNKNOWN"

\* a list whose last report is not the one that decides the verdict
C6_Witness ==
  /\ AggregatedNonEmpty
  /\ Len(in_reports) = MaxReports
  /\ agg_out[1] = "HIGH"
  /\ ClassOfReport(1) = "HIGH"
  /\ ClassOfReport(Len(in_reports)) = "SAFE"

\* C7: the ladder gives CRITICAL from critical_t up, else HIGH from high_t
\* up, else MEDIUM from medium_t up, else LOW from low_t up, else SAFE; a
\* score equal to a threshold is at that threshold's level; the result is
\* never UNKNOWN.
C7_Ladder ==
  cls_out # "none" =>
    LET s == in_score
        th == thresholds
    IN  /\ (s >= th.critical) => cls_out = "CRITICAL"
        /\ (s < th.critical /\ s >= th.high) => cls_out = "HIGH"
        /\ (s < th.critical /\ s < th.high /\ s >= th.medium)
             => cls_out = "MEDIUM"
        /\ (s < th.critical /\ s < th.high /\ s < th.medium /\ s >= th.low)
             => cls_out = "LOW"
        /\ (s < th.critical /\ s < th.high /\ s < th.medium /\ s < th.low)
             => cls_out = "SAFE"
        /\ cls_out \in RiskLevels \ {"UNKNOWN"}

\* a score exactly on the critical threshold, classified
C7_Witness ==
  /\ cls_out = "CRITICAL"
  /\ in_score = thresholds.critical
  /\ thresholds = DefaultThresholds

\* C8: under any fixed threshold set, ordered by convention or not, a
\* higher score never classifies to a level of lower priority.
C8_Monotone ==
  cls_out # "none" =>
    \A s2 \in ClassifyScores :
      /\ (s2 <= in_score) =>
           RISK_PRIORITY[Classify(s2, thresholds)] <= RISK_PRIORITY[cls_out]
      /\ (s2 >= in_score) =>
           RISK_PRIORITY[Classify(s2, thresholds)] >= RISK_PRIORITY[cls_out]

\* a classification under thresholds that break the conventional order
C8_Witness ==
  /\ cls_out = "MEDIUM"
  /\ thresholds.low > thresholds.medium
  /\ thresholds.high > thresholds.critical
  /\ in_score >= thresholds.low
  /\ in_score < thresholds.critical

\* C9 as stated: on an empty list the result is UNKNOWN with the summary
\* {reason: "no skills scanned"}.
C9_AsStated ==
  (agg_out # "none" /\ in_reports = <<>>) =>
    agg_out = <<"UNKNOWN", [reason |-> "no skills scanned"]>>

\* C9: on an empty list the result is UNKNOWN with a summary whose only
\* field is reason, holding the string "No skills scanned".
C9_EmptyList ==
  (agg_out # "none" /\ in_reports = <<>>) =>
    /\ agg_out[1] = "UNKNOWN"
    /\ DOMAIN agg_out[2] = {"reason"}
    /\ agg_out[2].reason = "No skills scanned"

C9_Witness == agg_out # "none" /\ in_reports = <<>>

RECURSIVE SumOfCounts(_, _)
SumOfCounts(counts, levels) ==
  IF levels = {} THEN 0
  ELSE LET l == CHOOSE x \in levels : TRUE
       IN  counts[l] + SumOfCounts(counts, levels \ {l})

RECURSIVE FindingsUpTo(_)
FindingsUpTo(n) ==
  IF n = 0 THEN 0
  ELSE FindingsUpTo(n - 1)
       + (IF "findings" \in DOMAIN in_reports[n]
          THEN Len(in_reports[n].findings) ELSE 0)

ScoresAre(scores) ==
  /\ Len(in_reports) = Len(scores)
  /\ \A i \in 1..Len(scores) :
       /\ "risk_score" \in DOMAIN in_reports[i]
       /\ in_reports[i].risk_score = scores[i]

\* C10: for a non-empty list the summary counts the reports per classified
\* level, the counts add up to total_skills, which is the number of
\* reports, and total_issues is the number of findings of all reports;
\* thresholds 8/6/4/2 with scores 1, 5, 9 give SAFE 1, MEDIUM 1,
\* CRITICAL 1 and the verdict CRITICAL.
C10_Summary ==
  AggregatedNonEmpty =>
    LET summary == agg_out[2]
    IN  /\ DOMAIN summary = {"risk_counts", "total_skills", "total_issues"}
        /\ \A l \in RiskLevels :
             summary.risk_counts[l] =
               Cardinality({i \in 1..Len(in_reports) : ClassOfReport(i) = l})
        /\ SumOfCounts(summary.risk_counts, RiskLevels) = summary.total_skills
        /\ summary.total_skills = Len(in_reports)
        /\ summary.total_issues = FindingsUpTo(Len(in_reports))
        /\ (thresholds = DefaultThresholds /\ ScoresAre(<<1, 5, 9>>)) =>
             /\ summary.risk_counts =
                  [ZeroCounts EXCEPT !["SAFE"] = 1, !["MEDIUM"] = 1,
                                     !["CRITICAL"] = 1]
             /\ agg_out[1] = "CRITICAL"

\* the example of the specification, aggregated, with findings to count
C10_Witness ==
  /\ agg_out # "none"
  /\ thresholds = DefaultThresholds
  /\ ScoresAre(<<1, 5, 9>>)
  /\ agg_out[2].total_issues > 0

(***************************************************************************)
(* Properties of scan_repo and scan_all.                                   *)
(***************************************************************************)
\* the partitions that hold a report file of r
ReportsOf(r) == {p \in Partitions : risk_files[r][p] # "absent"}

\* the risk level a report file records; a file not written out records none
RecordedLevel(r, p) ==
  IF risk_files[r][p] = "partial" THEN "UNKNOWN" ELSE risk_files[r][p]

\* the repo_ids the current call of process k selected
Selected(k) == {zip_files[k][i] : i \in 1..Len(zip_files[k])}

\* C1: when a report file of the repo_id exists in some partition as
\* scan_repo makes its check, it returns skipped with the risk level that
\* report records (HIGH for the report under high/), and extracts nothing,
\* invokes no analyzer and writes nothing.
C1_Resumable ==
  [][\A k \in Procs, r \in Repos :
       (task[k][r].pc = "check" /\ ReportsOf(r) # {}
          /\ task'[k][r] # task[k][r]) =>
         /\ task'[k][r].pc = "done"
         /\ task'[k][r].result.status = "skipped"
         /\ task'[k][r].result.skill_count = 0
         /\ \E p \in ReportsOf(r) :
              task'[k][r].result.risk_level = RecordedLevel(r, p)
         /\ (ReportsOf(r) = {"HIGH"} /\ risk_files[r]["HIGH"] # "partial") =>
              task'[k][r].result.risk_level = "HIGH"
         /\ repo_dir' = repo_dir
         /\ risk_files' = risk_files
         /\ scan_stats' = scan_stats]_vars

\* a later call has skipped the repository on its report under high/
C1_Witness ==
  \E k \in Procs :
    /\ runs_done[k] >= 1
    /\ task[k][1].pc = "done"
    /\ task[k][1].result = Result("skipped", "HIGH", 0)
    /\ risk_files[1]["HIGH"] = "HIGH"
    /\ ~overlap[1]

\* process 1 is in, or has returned from, its second call of scan_all,
\* made over the same archives as the first
InSecondRun ==
  /\ zip_files[1] = prev_zip_files[1]
  /\ \/ runs_done[1] = 1 /\ run_pc[1] = "running"
     \/ runs_done[1] = 2 /\ run_pc[1] = "returned"

\* C2 as stated: the second of two calls of scan_all over the same archives
\* gives no scanned status and no increment of Stats.scanned, and when it
\* returns every repository has resolved to skipped with the risk level it
\* had after the first call.
C2_AsStated ==
  InSecondRun =>
    /\ scan_stats[1].scanned = run_start[1].scanned
    /\ \A r \in Selected(1) : task[1][r].result.status # "scanned"
    /\ run_pc[1] = "returned" =>
         \A r \in Selected(1) :
           /\ task[1][r].result.status = "skipped"
           /\ task[1][r].result.risk_level = prev_result[1][r].risk_level

\* C3 as stated: at any time at most one partition holds a report file of a
\* repo_id, also when two calls work on the repo_id at the same time.
C3_AsStated == \A r \in Repos : Cardinality(ReportsOf(r)) <= 1

\* C3: as long as no two calls of scan_repo for a repo_id have overlapped in
\* time, at most one partition holds a report file of that repo_id.
C3_AtMostOneReport ==
  \A r \in Repos : ~overlap[r] => Cardinality(ReportsOf(r)) <= 1

\* both processes have been through the repository, one after the other,
\* and the second one skipped it
C3_Witness ==
  /\ ~overlap[1]
  /\ runs_done[1] >= 1
  /\ runs_done[2] >= 1
  /\ \E k \in Procs : task[k][1].result.status = "scanned"
  /\ \E k \in Procs : task[k][1].result.status = "skipped"
  /\ Cardinality(ReportsOf(1)) = 1

\* a report file written out, with the risk_level it holds
WrittenOut(r, p) == risk_files[r][p] \notin {"absent", "partial"}

\* C4 as stated: every report lies in the partition named after its own
\* risk_level, whatever the verdict, UNKNOWN included.
C4_AsStated ==
  \A r \in Repos, p \in Partitions :
    WrittenOut(r, p) => risk_files[r][p] = p

\* C4: a report with risk_level CRITICAL, HIGH, MEDIUM, LOW or SAFE lies in
\* the partition of that name; a report with risk_level UNKNOWN lies under
\* low/.
C4_PartitionOfVerdict ==
  \A r \in Repos, p \in Partitions :
    WrittenOut(r, p) =>
      /\ risk_files[r][p] \in RiskLevels
      /\ risk_files[r][p] # "UNKNOWN" => risk_files[r][p] = p
      /\ risk_files[r][p] = "UNKNOWN" => p = "LOW"

\* a report of verdict UNKNOWN and a report of verdict MEDIUM, both saved
C4_Witness ==
  \E r \in Repos :
    /\ risk_files[r]["LOW"] = "UNKNOWN"
    /\ risk_files[r]["MEDIUM"] = "MEDIUM"

\* the repositories of the current call of k whose scan_repo ended failed,
\* by its return value or by an exception
FailedIn(k) ==
  {r \in Selected(k) : task[k][r].result.status \in {"failed", "raised"}}

\* C5: an exception in scan_repo for one repository is counted as one
\* failure of that repository; the call goes on, and when it returns every
\* selected repository, of the same batch and of later batches, has been
\* processed to an outcome of its own.
C5_FailureIsolation ==
  \A k \in Procs :
    /\ run_pc[k] = "running" => ENABLED Step(k, ExtremeScores)
    /\ (run_pc[k] = "returned") =>
         /\ \A r \in Selected(k) :
              /\ task[k][r].pc = "collected"
              /\ task[k][r].result.status \in
                   {"scanned", "skipped", "failed", "raised"}
         /\ scan_stats[k].failed = Cardinality(FailedIn(k))
         /\ scan_stats[k].total = Len(zip_files[k])

\* a call has returned in which the first repository raised, the second,
\* of the same batch, was scanned, and the last, of a later batch, too
C5_Witness ==
  /\ run_pc[1] = "returned"
  /\ NumRepos > BatchSize
  /\ task[1][1].result.status = "raised"
  /\ task[1][2].result.status = "scanned"
  /\ task[1][NumRepos].result.status = "scanned"
  /\ scan_stats[1].failed = 1

(***************************************************************************)
(* Properties of the bundle loop, the counters and the report file.        *)
(***************************************************************************)
\* the reports scan_skill can return for a bundle it analyzed
AnalyzerReports ==
  {o.report : o \in {a \in AnalyzerOutcomes(SampleScores) : a.ok}}

\* C11: a bundle whose analyzer invocation gives no report (non-zero exit,
\* timeout, no output file, output that does not parse) adds nothing to the
\* reports handed to aggregation; the loop goes on to the next bundle of the
\* repository, and scan_repo does not end failed at this point.
C11_BundleFailureContained ==
  [][\A k \in Procs, r \in Repos :
       (task[k][r].pc = "scan" /\ task'[k][r] # task[k][r]) =>
         LET t == task[k][r]
             u == task'[k][r]
         IN  /\ u.pc \in {"scan", "save"}
             /\ u.pc = "scan" => u.idx = t.idx + 1
             /\ u.pc = "save" => t.idx + 1 = archive[r].skill_dirs
             /\ \/ u.skill_reports = t.skill_reports
                \/ \E rep \in AnalyzerReports :
                     u.skill_reports = Append(t.skill_reports, rep)]_vars

\* the first bundle of a repository gave no report and the second is about
\* to be analyzed
C11_Witness ==
  \E k \in Procs :
    /\ archive[1].skill_dirs = 2
    /\ task[k][1].pc = "scan"
    /\ task[k][1].idx = 1
    /\ task[k][1].skill_reports = <<>>

\* the repositories of the current call of k that ended with the status
ResolvedAs(k, status) ==
  {r \in Selected(k) : task[k][r].result.status = status}

\* C12 as stated: when scan_all returns, Stats.scanned is the number of
\* selected repositories that ended scanned, each of them counted once in
\* by_risk under its risk level; a repository extracted but ended skipped
\* or failed is not counted as scanned.
C12_AsStated ==
  (run_pc[1] = "returned" /\ runs_done[1] >= 1) =>
    /\ scan_stats[1].scanned = Cardinality(ResolvedAs(1, "scanned"))
    /\ \A risk \in RiskLevels :
         scan_stats[1].by_risk[risk] >=
           Cardinality({r \in ResolvedAs(1, "scanned") :
                          task[1][r].result.risk_level = risk})

\* C13 as stated: when scan_all returns, Stats.skipped is the number of
\* selected repositories that resolved to skipped in this call.
C13_AsStated ==
  (run_pc[1] = "returned" /\ runs_done[1] >= 1) =>
    scan_stats[1].skipped = Cardinality(ResolvedAs(1, "skipped"))

\* C14 as stated: no call that makes the exists/load probe finds a report
\* file at its canonical path that is empty or written in part.
C14_AsStated ==
  \A k \in Procs, r \in Repos :
    task[k][r].pc = "check" =>
      \A p \in Partitions : risk_files[r][p] # "partial"
(***************************************************************************)
(* Properties of scan_repo around extraction and discovery.                *)
(***************************************************************************)
\* the selected repositories of k whose archive does not unpack
Unscannable(k) == {r \in Selected(k) : archive[r].kind = "corrupt"}

\* C18: for a corrupt or empty archive no repository directory is created,
\* no analyzer runs and no report is saved; scan_repo ends failed, the
\* failure is counted, and every later call ends failed for it again, never
\* skipped.
C18_ExtractFailure ==
  /\ \A r \in Repos :
       archive[r].kind = "corrupt" =>
         /\ ~repo_dir[r]
         /\ ReportsOf(r) = {}
         /\ \A k \in Procs :
              /\ task[k][r].pc \notin {"count", "find", "scan", "save", "dump"}
              /\ task[k][r].pc \in {"done", "collected"} =>
                   task[k][r].result.status \in {"failed", "raised"}
              /\ task[k][r].skill_reports = <<>>
  /\ \A k \in Procs :
       run_pc[k] = "returned" =>
         scan_stats[k].failed >= Cardinality(Unscannable(k))

\* the second call has returned, and the corrupt archive failed in it as it
\* did in the first
C18_Witness ==
  \E r \in Repos :
    /\ archive[r].kind = "corrupt"
    /\ runs_done[1] = 2
    /\ run_pc[1] = "returned"
    /\ prev_result[1][r].status = "failed"
    /\ task[1][r].result.status = "failed"
    /\ scan_stats[1].failed >= 1

ArchivePaths(zip) == Closure({zip.members[i] : i \in 1..Len(zip.members)})

\* the tree a repository root is to hold for the archive: the content of
\* the single top-level entry, or every top-level entry
Normalized(zip) ==
  IF Cardinality(iterdir(ArchivePaths(zip))) = 1
  THEN {Tail(p) : p \in {q \in ArchivePaths(zip) : Len(q) > 1}}
  ELSE ArchivePaths(zip)

\* s ends t
IsSuffix(s, t) ==
  Len(s) <= Len(t) /\ SubSeq(t, Len(t) - Len(s) + 1, Len(t)) = s

\* every path of the archive's tree is there, at some depth
Complete(entries) ==
  \A p \in Normalized(zip_path) : \E e \in entries : IsSuffix(p, e)

\* C15: target_path is never a non-empty directory that holds only part of
\* the archive: what extract_repo did not find there already is moved
\* there whole, so a call that takes the shortcut on it returns a complete
\* tree.
C15_NeverPartial ==
  /\ (target_path.kind = "dir" /\ target_path.entries # {}
      /\ target_path # Preexisting) =>
       Complete(target_path.entries)
  /\ (ext_pc = "returned" /\ ext_ret = "shortcut"
      /\ target_path # Preexisting) =>
       /\ target_path.kind = "dir"
       /\ Complete(target_path.entries)
  /\ ext_pc = "extractall" => target_path \in {Absent, Dir({})}

\* a second call took the shortcut on the tree the first one unpacked from
\* an archive of several members
C15_Witness ==
  /\ ext_calls = 2
  /\ ext_pc = "returned"
  /\ ext_ret = "shortcut"
  /\ target_path # Preexisting
  /\ Len(zip_path.members) >= 2
  /\ scan_stats[1].scanned = 1

\* C16 as stated: after extract_repo has unpacked the archive, target_path
\* being absent or empty before, an archive with one top-level directory
\* leaves the content of that directory right under target_path, and an
\* archive with several top-level entries leaves all of them right under
\* target_path.
C16_AsStated ==
  (/\ ext_pc = "returned"
   /\ ext_ret = "unpacked"
   /\ Cardinality(iterdir(ArchivePaths(zip_path))) = 1 =>
        iterdir(ArchivePaths(zip_path)) \cap FileNames = {}) =>
    target_path = Dir(Normalized(zip_path))

\* C17: a call of extract_repo that finds target_path an existing non-empty
\* directory returns it at once: the archive is not opened, whatever its
\* state, no staging directory is made, nothing under target_path changes
\* and nothing is counted.
C17_Idempotent ==
  [][(/\ ext_pc = "probe"
      /\ target_path.kind = "dir"
      /\ target_path.entries # {}) =>
       /\ ext_pc' = "returned"
       /\ ext_ret' = "shortcut"
       /\ target_path' = target_path
       /\ temp_dir = Absent
       /\ temp_dir' = Absent
       /\ zip_path' = zip_path
       /\ scan_stats' = scan_stats]_vars

\* the shortcut was taken on a directory with content of its own although
\* the archive is no zip file
C17_Witness ==
  /\ ext_pc = "returned"
  /\ ext_ret = "shortcut"
  /\ target_path = Preexisting
  /\ zip_path = CorruptZip

\* the directories of the tree, the root among them, that directly hold an
\* indicator file
Qualifying(entries) ==
  {d \in entries \cup {<<>>} :
     /\ d = <<>> \/ d[Len(d)] \notin FileNames
     /\ \E f \in Indicators : Append(d, f) \in entries}

\* C20 as stated: find_skill_dirs returns exactly the directories of the
\* tree, the repository root included, that directly hold an indicator
\* file.
C20_AsStated ==
  find_pc = "returned" => found_dirs = Qualifying(repo_path)

(***************************************************************************)
(* Claims about the downloader.                                            *)
(***************************************************************************)
\* the file at the archive path of the task of future i
ArchiveOf(i) == zip_dir[download[i].task.repo_id]

\* the outcome a call that ended reports, read off its return value alone
Reported(fr) ==
  IF fr.pc = "raised" \/ ~fr.ret.success THEN "failed"
  ELSE IF fr.ret.msg = AlreadyMsg THEN "skipped"
  ELSE "downloaded"

\* the file is there and holds at least one byte
NonEmpty(f) == f.state \in {"partial", "complete"}

\* C21: a call of download_repo that finds the archive with size > 0 goes
\* to the return of "Already exists" without a change of zip_dir, and
\* returns the skipped outcome without a download attempt and without a
\* change of zip_dir.
C21_Idempotent ==
  [][LET fr == download[1]
     IN  /\ (fr.pc = "check" /\ NonEmpty(ArchiveOf(1)))
              => (download'[1].pc = "already" /\ zip_dir' = zip_dir)
         /\ fr.pc = "already"
              => /\ download'[1].pc = "returned"
                 /\ Reported(download'[1]) = "skipped"
                 /\ download'[1].attempts = <<>>
                 /\ zip_dir' = zip_dir]_vars

C21_Witness ==
  /\ download[1].pc = "returned"
  /\ Reported(download[1]) = "skipped"
  /\ download[1].attempts = <<>>
  /\ NonEmpty(ArchiveOf(1))

\* the results of an attempt that failed
Failures == {"failed", "exception"}

\* C22: a call of download_repo makes at most two attempts; it returns a
\* failure only when two attempts were made and both failed, by a False
\* result or by an exception; when the first attempt failed and the second
\* succeeded it returns success with "(fallback)" in the message; and every
\* call returns.
C22_TwoAttempts ==
  /\ [](LET fr == download[1]
        IN  /\ Len(fr.attempts) <= 2
            /\ fr.pc # "raised"
            /\ (fr.pc = "returned" /\ ~fr.ret.success)
                 => /\ Len(fr.attempts) = 2
                    /\ \A a \in 1..2 : fr.attempts[a].result \in Failures
            /\ (/\ fr.pc = "returned"
                /\ Len(fr.attempts) = 2
                /\ fr.attempts[1].result \in Failures
                /\ fr.attempts[2].result = "success")
                 => /\ fr.ret.success
                    /\ Contains(fr.ret.msg, "(fallback)"))
  /\ (download[1].pc \in Downloading) ~> (download[1].pc = "returned")

C22_Witness ==
  /\ download[1].pc = "returned"
  /\ Len(download[1].attempts) = 2
  /\ download[1].attempts[1].result = "exception"
  /\ download[1].attempts[2].result = "success"
  /\ download[1].ret.success

\* C23: whenever download_repo has returned a failure, no file is at the
\* archive path.
C23_AsStated ==
  (download[1].pc = "returned" /\ ~download[1].ret.success)
    => ~Exists(ArchiveOf(1))

\* C24: the URL of the first attempt is the download_url of the task when
\* one is supplied, and the archive URL of the branch of the task otherwise.
C24_AsStated ==
  LET fr == download[1]
  IN  Len(fr.attempts) >= 1
        => fr.attempts[1].url =
             IF fr.task.download_url = GivenUrl THEN GivenUrl
             ELSE ArchiveUrl(fr.task.repo_id, fr.task.branch)

\* the futures that were submitted and the ones that ended as outcome
Submitted == 1..Len(repo_mapping)

EndedAs(outcome) ==
  {i \in Submitted : download[i].pc \in {"returned", "raised"}
                       /\ Reported(download[i]) = outcome}

\* C25: when download_all returns, total is the number of tasks that were
\* run, each of them ended, success, skipped and failed are the numbers of
\* tasks that ended as downloaded, as skipped and as failed (a raised call
\* being failed), and they add up to total; while it runs, every future
\* yielded has added one to exactly one counter.
C25_CountsAddUp ==
  /\ pool_pc = "running"
       => tally.success + tally.skipped + tally.failed = Cardinality(completed)
  /\ pool_pc = "returned"
       => /\ Summary.total = Len(repo_mapping)
          /\ \A i \in Submitted : download[i].pc \in {"returned", "raised"}
          /\ Summary.success = Cardinality(EndedAs("downloaded"))
          /\ Summary.skipped = Cardinality(EndedAs("skipped"))
          /\ Summary.failed = Cardinality(EndedAs("failed"))
          /\ Summary.success + Summary.skipped + Summary.failed = Summary.total

C25_Witness ==
  /\ pool_pc = "returned"
  /\ Summary.total = MaxTasks
  /\ \E i \in Submitted : download[i].pc = "raised"
  /\ Summary.skipped >= 1
  /\ Summary.success >= 1

\* C30: when the two calls of download_repo for a repo_id that has exactly
\* two tasks have both ended, each of them that returned a success left a
\* complete archive at the archive path.
C30_AsStated ==
  \A i, j \in Submitted :
    (/\ i # j
     /\ download[i].task.repo_id = download[j].task.repo_id
     /\ \A h \in Submitted :
          download[h].task.repo_id = download[i].task.repo_id => h \in {i, j}
     /\ download[i].pc \in {"returned", "raised"}
     /\ download[j].pc \in {"returned", "raised"}
     /\ Reported(download[i]) # "failed")
      => ArchiveOf(i).state = "complete"

(***************************************************************************)
(* Claims about scan_all: selection, reports across runs, counters and     *)
(* batches.                                                                *)
(***************************************************************************)
\* the archives of zip_dir in ascending order of the number in their names
RECURSIVE Ascending(_)
Ascending(S) ==
  IF S = {} THEN <<>>
  ELSE LET r == CHOOSE x \in S :
                  \A y \in S : SearchNumber(ZipName(x)) <= SearchNumber(ZipName(y))
       IN  <<r>> \o Ascending(S \ {r})

\* the candidates at the positions [start_from, start_from + limit) of the
\* sorted list, counted from 0; all from start_from on without a limit
Positions(args) ==
  LET listed == Ascending({r \in Repos : archive[r].kind # "absent"})
      last == IF args.has_limit
              THEN Min(args.start_from + args.limit, Len(listed))
              ELSE Len(listed)
  IN  SubSeq(listed, args.start_from + 1, last)

\* C26: a call of scan_all works on the candidates at the positions
\* [start_from, start_from + limit) of the sorted list, counts that many in
\* total, and has processed each of them once when it returns.
C26_AsStated ==
  run_pc[1] \in {"running", "returned"}
    => /\ zip_files[1] = Positions(run_args[1])
       /\ scan_stats[1].total = Len(Positions(run_args[1]))
       /\ run_pc[1] = "returned"
            => \A r \in Repos :
                 task[1][r].pc = IF \E j \in 1..Len(zip_files[1]) : zip_files[1][j] = r
                                 THEN "collected" ELSE "none"

\* C27: over the calls of scan_all that one process makes one after the
\* other, a report file that exists is never removed and never changed,
\* except that the call which opened it writes it out; and a repo_id has a
\* report file in at most one partition.
C27_ReportImmutable ==
  /\ [][\A r \in Repos, p \in Partitions :
          risk_files[r][p] # "absent"
            => \/ risk_files'[r][p] = risk_files[r][p]
               \/ /\ risk_files[r][p] = "partial"
                  /\ task[1][r].pc = "dump"
                  /\ task'[1][r].result.status = "scanned"
                  /\ risk_files'[r][p] = task[1][r].repo_risk]_vars
  /\ [](\A r \in Repos : Cardinality(ReportsOf(r)) <= 1)

\* the second call has been through the first repository, which the first
\* call scanned, and left its report as it was
C27_Witness ==
  /\ runs_done[1] = 2
  /\ prev_result[1][1].status = "scanned"
  /\ task[1][1].result.status = "skipped"
  /\ \E p \in Partitions : WrittenOut(1, p)

\* the repositories the first call of scan_all unpacked: the ones whose
\* directory is there, and the ones skipped, whose directory was removed
\* for want of a skill directory
UnpackedInFirstCall == {r \in Selected(1) : repo_dir[r] \/ task[1][r].result.status = "skipped"}

\* C28: when the first call of scan_all returns, Stats.scanned is the number
\* of increments made, one for each repository unpacked, whatever the
\* interleaving of the worker threads.
C28_AsStated ==
  (run_pc[1] = "returned" /\ runs_done[1] = 1)
    => scan_stats[1].scanned = Cardinality(UnpackedInFirstCall)

\* C29: while scan_all runs, every repository of an earlier batch has been
\* collected, no repository of a later batch has been submitted, and at most
\* max_workers repositories are inside scan_repo.
C29_BatchesInTurn ==
  \A k \in Procs :
    run_pc[k] = "running"
      => /\ Cardinality({r \in Repos : task[k][r].pc \in Active}) <= max_workers
         /\ \A j \in 1..Len(zip_files[k]) :
              /\ j <= batch_i[k] => task[k][zip_files[k][j]].pc = "collected"
              /\ j > batch_i[k] + BatchSize => task[k][zip_files[k][j]].pc = "none"

\* the second batch is under way after a first batch that had more
\* repositories than the executor has workers
C29_Witness ==
  /\ run_pc[1] = "running"
  /\ batch_i[1] = BatchSize
  /\ max_workers < BatchSize
  /\ Len(zip_files[1]) > BatchSize
  /\ task[1][zip_files[1][BatchSize + 1]].pc \in Active

(***************************************************************************)
(* Claims about failures of the save, the extracted directory, the staging *)
(* directory and the counters of a call.                                   *)
(***************************************************************************)
\* C31: whenever scan_repo was left by an exception, no report file of the
\* repo_id is in any partition.
C31_AsStated ==
  \A k \in Procs, r \in Repos :
    (task[k][r].pc \in {"done", "collected"}
       /\ task[k][r].result.status = "raised")
      => ReportsOf(r) = {}

\* C32: a step removes the extracted directory of a repository only as the
\* no-skills return of scan_repo: discovery found no skill directory and
\* the call returns skipped with UNKNOWN.  The check that finds a report,
\* the save, the return after it and an exception leave the directory and
\* the tree in it as they were.
C32_DeletedOnlyWithoutSkills ==
  [][\A r \in Repos :
       repo_dir[r] =>
         \/ repo_dir'[r] /\ archive'[r] = archive[r]
         \/ \E k \in Procs :
              /\ task[k][r].pc = "find"
              /\ archive[r].skill_dirs = 0
              /\ task'[k][r] = Done(Result("skipped", "UNKNOWN", 0))]_vars

\* the second call has returned: one repository was scanned in the first
\* call and skipped for its report in the second, another was left by an
\* exception, and the directories of both are there
C32_Witness ==
  \E r, q \in Repos :
    /\ runs_done[1] = 2
    /\ prev_result[1][r].status = "scanned"
    /\ task[1][r].result.status = "skipped"
    /\ repo_dir[r]
    /\ archive[r].skill_dirs > 0
    /\ task[1][q].result.status = "raised"
    /\ repo_dir[q]

\* C33: whenever extract_repo has returned from its try block, with the
\* unpacked tree or with None after a failure of the open, of a member, of
\* the listing or of the move, the staging directory temp_dir does not
\* exist.
C33_StagingRemoved ==
  (ext_pc = "returned" /\ ext_ret \in {"unpacked", "None"})
    => temp_dir = Absent

\* extract_repo returned None for an archive whose second member failed,
\* the first one having been written to the staging directory
C33_Witness ==
  /\ ext_pc = "returned"
  /\ ext_ret = "None"
  /\ zip_path.kind = "zip"
  /\ zip_path.bad = 2
  /\ temp_dir = Absent

\* the repositories of the current call of process k that ended scanned or
\* skipped with the risk level l
EndedWithLevel(k, l) ==
  {r \in Selected(k) : /\ task[k][r].result.status \in {"scanned", "skipped"}
                        /\ task[k][r].result.risk_level = l}

\* C36: when scan_all returns, failed plus the sum of by_risk over the six
\* levels is total: failed is the number of selected repositories that
\* ended failed or by an exception, and by_risk of each level the number
\* that ended scanned or skipped with that level.
C36_EveryRepoCountedOnce ==
  run_pc[1] = "returned" =>
    /\ scan_stats[1].failed + SumOfCounts(scan_stats[1].by_risk, RiskLevels)
         = scan_stats[1].total
    /\ scan_stats[1].failed = Cardinality(FailedIn(1))
    /\ \A l \in RiskLevels :
         scan_stats[1].by_risk[l] = Cardinality(EndedWithLevel(1, l))

\* a call over all archives has returned with one repository failed, one
\* skipped with UNKNOWN and one scanned
C36_Witness ==
  /\ run_pc[1] = "returned"
  /\ scan_stats[1].total = NumRepos
  /\ scan_stats[1].failed = 1
  /\ scan_stats[1].by_risk["UNKNOWN"] = 1
  /\ \E r \in Selected(1) : task[1][r].result.status = "scanned"

\* C37 as stated: in the report scan_repo writes to the report file,
\* scanned_skills is the number of skill directories whose scan gave a
\* report, and scanned_skills + failed_skills is the number of skill
\* directories found.
C37_AsStated ==
  \A k \in Procs, r \in Repos :
    task[k][r].pc = "dump" =>
      LET report == _generate_report(task[k][r].skill_reports,
                                     task[k][r].repo_risk)
      IN  /\ report.scanned_skills = Len(task[k][r].skill_reports)
          /\ report.scanned_skills + report.failed_skills
               = find_skill_dirs(r)

\* C34: with the worker threads and the main thread scheduled, and every
\* extraction and analyzer call coming back, a call of scan_all that runs
\* returns; and when it has returned, the future of every selected
\* repository was taken with exactly one outcome: scanned, skipped, or
\* failed (by the status failed or by an exception, counted as failed).
C34_RunReturns ==
  /\ [](run_pc[1] = "returned" =>
          \A r \in Selected(1) :
            /\ task[1][r].pc = "collected"
            /\ task[1][r].result.status
                 \in {"scanned", "skipped", "failed", "raised"})
  /\ (run_pc[1] = "running") ~> (run_pc[1] = "returned")

\* a call over all archives, in more than one batch, has returned with the
\* three outcomes among its repositories
C34_Witness ==
  /\ run_pc[1] = "returned"
  /\ Len(zip_files[1]) = NumRepos
  /\ NumRepos > BatchSize
  /\ \E r, q, s \in Selected(1) :
       /\ task[1][r].result.status = "scanned"
       /\ task[1][q].result.status = "skipped"
       /\ task[1][s].result.status = "failed"

(***************************************************************************)
(* Claims about the fallback flag, the key pool and the audit.             *)
(***************************************************************************)
\* C35 as stated: a downloader whose branch_fallback is off makes at most
\* one attempt per call of download_repo.
C35_AsStated ==
  ~branch_fallback => Len(download[1].attempts) <= 1

\* every position handed out follows the one before it in the pool
RoundRobin ==
  \A j \in 1..(Len(granted) - 1) :
    granted[j + 1] = (granted[j] + 1) % pool_size

\* C38 as stated: get_next_key hands out the positions 0 .. n-1 in turn, in
\* the order in which the lock was taken; the stored index is in 0 .. n-1;
\* and every call of get_next_key returns a key.
C38_AsStated ==
  /\ RoundRobin
  /\ index_file.state = "written" => index_file.value \in 0..(pool_size - 1)
  /\ \A c \in Callers : key_caller[c].pc # "raised"

\* C39 as stated: analyze_skill gets to the analyzer only when no run
\* before it left a file of the skill in SAFE, SUSPICIOUS, MALICIOUS or
\* ERROR.
C39_AsStated ==
  audit_pc = "run" => results_dir = {}
====
